---------------------------- MODULE Spec2Model ----------------------------
(***************************************************************************)
(* Sales transaction engine of the DEKIDS stock-control application:       *)
(* the in-memory cart (vendas.py, class Carrinho), finalizar_venda and     *)
(* cancelar_venda (vendas.py) and the database functions they call         *)
(* (database.py).                                                          *)
(*                                                                         *)
(* Money is counted in thousandths of a real (10.00 is 10000), so that the *)
(* 0.01 tolerance is the integer 10.  None is modelled by Nenhum (0): the  *)
(* database's ids start at 1.                                              *)
(*                                                                         *)
(* A request to the remote store is atomic: it is applied and answers, or  *)
(* it is not applied and answers with an empty result or raises.  Each     *)
(* database function (inserir_venda, registrar_movimentacao, ...) is one   *)
(* step of the operation that calls it, its reconnection path included.    *)
(***************************************************************************)
EXTENDS Integers, Sequences, FiniteSets, TLC

VARIABLES
    carrinho,       \* the session's Carrinho: itens, desconto_percentual, desconto_valor
    produtos,       \* remote table produtos: product id -> quantidade
    movimentacoes,  \* remote table movimentacoes (the ledger), in insertion order
    vendas,         \* remote table vendas: sale id (index) -> header
    itens_venda,    \* remote table itens_venda: sale id -> its rows
    pagamentos,     \* remote table pagamentos: sale id -> its rows
    pc,             \* position of the running operation ("idle" between operations)
    loc,            \* local variables of the running operation
    ret,            \* what the last operation returned
    chamadas,       \* remote calls issued by the running / last operation, in order
    antes,          \* the cart and the remote tables as the running / last operation found them
    edicoes         \* number of cart operations the seller has made so far

vars == <<carrinho, produtos, movimentacoes, vendas, itens_venda, pagamentos,
          pc, loc, ret, chamadas, antes, edicoes>>

remoto == <<produtos, movimentacoes, vendas, itens_venda, pagamentos>>

---------------------------------------------------------------------------
(* Bounds of the model *)

NumProdutos == 2
EstoqueInicial == 2
MaxVendas == 1
MaxEdicoes == 3

Produtos == 1..NumProdutos

(* Program constants *)

Nenhum == 0
Tolerancia == 10
MaxParcelas == 12

(* preco of product p: 10.00, 20.00, ... *)
Preco(p) == p * 10000

FormasValidas == {"dinheiro", "cartao_credito", "cartao_debito", "pix"}
TiposMovimentacao == {"entrada", "saida", "ajuste"}

(* Outcomes of one request to the remote store: answered with data, answered
   with no row, raised an error, raised a connection error. *)
Respostas == {"ok", "vazio", "erro", "conexao"}

---------------------------------------------------------------------------
(* Carrinho: pure parts *)

ItemCarrinho(p, q, preco, estoque) ==
    [produto_id |-> p, quantidade |-> q, preco_unitario |-> preco,
     estoque_disponivel |-> estoque]

CarrinhoVazio == [itens |-> <<>>, desconto_percentual |-> 0, desconto_valor |-> 0]

ItemSubtotal(item) == item.quantidade * item.preco_unitario

RECURSIVE SomaSubtotais(_)
SomaSubtotais(itens) ==
    IF itens = <<>> THEN 0
    ELSE ItemSubtotal(Head(itens)) + SomaSubtotais(Tail(itens))

CalcularSubtotal(c) == IF c.itens = <<>> THEN 0 ELSE SomaSubtotais(c.itens)

CalcularDesconto(c) ==
    IF c.desconto_valor > 0 THEN c.desconto_valor
    ELSE IF c.desconto_percentual > 0
         THEN (CalcularSubtotal(c) * c.desconto_percentual) \div 100
         ELSE 0

Max(a, b) == IF a >= b THEN a ELSE b

CalcularTotal(c) == Max(0, CalcularSubtotal(c) - CalcularDesconto(c))

(* index of the line of product p, Nenhum when there is none *)
IndiceDe(itens, p) ==
    IF \E k \in 1..Len(itens) : itens[k].produto_id = p
    THEN CHOOSE k \in 1..Len(itens) :
            /\ itens[k].produto_id = p
            /\ \A j \in 1..(k - 1) : itens[j].produto_id # p
    ELSE Nenhum

(* an adicionar_produto that would write the line before checking the stock *)
AdicionarAntesDeValidar(c, p, q, estoque) ==
    LET k == IndiceDe(c.itens, p)
        novo == IF k # Nenhum
                THEN [c EXCEPT !.itens[k].quantidade = @ + q]
                ELSE [c EXCEPT !.itens =
                        Append(@, ItemCarrinho(p, q, Preco(p), estoque))]
        resultante == IF k # Nenhum THEN c.itens[k].quantidade + q ELSE q
    IN [ok |-> ~(resultante > estoque), carrinho |-> novo]

(* an adicionar_produto that would always create a line *)
AdicionarSempreNovaLinha(c, p, q, estoque) ==
    IF q > estoque
    THEN [ok |-> FALSE, carrinho |-> c]
    ELSE [ok |-> TRUE,
          carrinho |-> [c EXCEPT !.itens =
                          Append(@, ItemCarrinho(p, q, Preco(p), estoque))]]

(* adicionar_produto after the product was fetched with stock `estoque` *)
AdicionarAoCarrinho(c, p, q, estoque) ==
    LET k == IndiceDe(c.itens, p) IN
    IF k # Nenhum
    THEN IF c.itens[k].quantidade + q > estoque
         THEN [ok |-> FALSE, carrinho |-> c]
         ELSE [ok |-> TRUE,
               carrinho |-> [c EXCEPT !.itens[k].quantidade = @ + q]]
    ELSE IF q > estoque
         THEN [ok |-> FALSE, carrinho |-> c]
         ELSE [ok |-> TRUE,
               carrinho |-> [c EXCEPT !.itens =
                               Append(@, ItemCarrinho(p, q, Preco(p), estoque))]]

AplicarDescontoPercentualEm(c, percentual) ==
    IF percentual < 0 \/ percentual > 100
    THEN [ok |-> FALSE, carrinho |-> c]
    ELSE IF CalcularSubtotal(c) - (CalcularSubtotal(c) * percentual) \div 100 < 0
         THEN [ok |-> FALSE, carrinho |-> c]
         ELSE [ok |-> TRUE,
               carrinho |-> [c EXCEPT !.desconto_percentual = percentual,
                                      !.desconto_valor = 0]]

(* an atualizar_quantidade that would not look at the cached stock *)
AtualizarSemLimiteDeEstoque(c, p, q) ==
    LET k == IndiceDe(c.itens, p)
        ok == k # Nenhum /\ ~(q <= 0)
    IN [ok |-> ok,
        carrinho |-> IF ok THEN [c EXCEPT !.itens[k].quantidade = q] ELSE c]

(* atualizar_quantidade: the line is looked up in the cart and the quantity
   compared with the stock cached in the line; nothing is fetched *)
AtualizarQuantidadeEm(c, p, q) ==
    LET k == IndiceDe(c.itens, p)
        ok == /\ k # Nenhum
              /\ ~(q > c.itens[k].estoque_disponivel)
              /\ ~(q <= 0)
    IN [ok |-> ok,
        carrinho |-> IF ok THEN [c EXCEPT !.itens[k].quantidade = q] ELSE c]

(* an aplicar_desconto_valor that would keep the percent discount *)
AplicarDescontoValorSemZerar(c, valor) ==
    IF valor < 0 \/ valor > CalcularSubtotal(c)
    THEN [ok |-> FALSE, carrinho |-> c]
    ELSE [ok |-> TRUE, carrinho |-> [c EXCEPT !.desconto_valor = valor]]

AplicarDescontoValorEm(c, valor) ==
    IF valor < 0 THEN [ok |-> FALSE, carrinho |-> c]
    ELSE IF valor > CalcularSubtotal(c) THEN [ok |-> FALSE, carrinho |-> c]
    ELSE IF CalcularSubtotal(c) - valor < 0 THEN [ok |-> FALSE, carrinho |-> c]
    ELSE [ok |-> TRUE,
          carrinho |-> [c EXCEPT !.desconto_valor = valor,
                                 !.desconto_percentual = 0]]

Limpar(c) == [itens |-> <<>>, desconto_percentual |-> 0, desconto_valor |-> 0]

(* validar_disponibilidade: one select per line, answered by respostas[k].
   A line's cached stock is refreshed only in the two failing branches; an
   exception ends the loop with the lines before it already refreshed. *)
RECURSIVE ValidarLinhas(_, _, _, _)
ValidarLinhas(itens, prod, respostas, k) ==
    IF k > Len(itens) THEN [itens |-> itens, erros |-> 0, lidos |-> Len(itens)]
    ELSE
      LET item == itens[k]
          estoque_atual == prod[item.produto_id]
      IN
      CASE respostas[k] \in {"erro", "conexao"} ->
             [itens |-> itens, erros |-> 1, lidos |-> k]
        [] respostas[k] = "vazio" ->
             LET r == ValidarLinhas(itens, prod, respostas, k + 1)
             IN [r EXCEPT !.erros = @ + 1]
        [] OTHER ->
             IF item.quantidade > estoque_atual
             THEN LET r == ValidarLinhas(
                             [itens EXCEPT ![k].estoque_disponivel = estoque_atual],
                             prod, respostas, k + 1)
                  IN [r EXCEPT !.erros = @ + 1]
             ELSE IF estoque_atual = 0
             THEN LET r == ValidarLinhas(
                             [itens EXCEPT ![k].estoque_disponivel = 0],
                             prod, respostas, k + 1)
                  IN [r EXCEPT !.erros = @ + 1]
             ELSE ValidarLinhas(itens, prod, respostas, k + 1)

(* a validar_disponibilidade that would accept whatever the stock is *)
ValidarSemOlharOEstoque(c, prod, respostas) ==
    [disponivel |-> TRUE, carrinho |-> c, lidos |-> Len(c.itens)]

ValidarDisponibilidade(c, prod, respostas) ==
    IF c.itens = <<>>
    THEN [disponivel |-> TRUE, carrinho |-> c, lidos |-> 0]
    ELSE LET r == ValidarLinhas(c.itens, prod, respostas, 1)
         IN [disponivel |-> r.erros = 0,
             carrinho |-> [c EXCEPT !.itens = r.itens],
             lidos |-> r.lidos]

---------------------------------------------------------------------------
(* validacao_vendas.py *)

Pagamento(forma, valor, parcelas) ==
    [forma_pagamento |-> forma, valor |-> valor, numero_parcelas |-> parcelas]

ValidarPagamento(forma, valor, parcelas) ==
    IF forma \notin FormasValidas THEN FALSE
    ELSE IF valor <= 0 THEN FALSE
    ELSE IF forma = "cartao_credito"
         THEN parcelas # Nenhum /\ parcelas >= 1 /\ parcelas <= MaxParcelas
         ELSE parcelas = Nenhum

RECURSIVE SomaPagamentos(_)
SomaPagamentos(ps) ==
    IF ps = <<>> THEN 0 ELSE Head(ps).valor + SomaPagamentos(Tail(ps))

Abs(x) == IF x < 0 THEN -x ELSE x

(* the amounts of a payment list, in order *)
ValoresDe(ps) == [k \in 1..Len(ps) |-> ps[k].valor]

(* `abs(soma_pagamentos - valor_total) > tolerancia` is evaluated on binary
   floating point numbers.  For amounts in thousandths the computed
   difference is within 1e-10 of the exact one, so the comparison agrees with
   the exact one unless the exact difference is the tolerance itself; there
   the rounding decides.  These are the amounts and totals of this model, at
   an exact difference of 0.01, for which the computed difference comes out
   above 0.01 (59.99 - 59.98 is 0.010000000000005116); for the others at that
   difference (0.01 and 0.02, 59.99 and 60.00) it comes out at or below. *)
ArredondadasParaCima ==
    { << <<59990>>, 59980 >>, << <<10, 10, 59990>>, 60000 >> }

DiferencaExcede(ps, valor_total) ==
    LET diferenca == Abs(SomaPagamentos(ps) - valor_total) IN
    \/ diferenca > Tolerancia
    \/ /\ diferenca = Tolerancia
       /\ <<ValoresDe(ps), valor_total>> \in ArredondadasParaCima

(* a validar_pagamentos_venda that would also reject a difference equal to
   the tolerance *)
ValidarPagamentosVendaEstrito(ps, valor_total) ==
    /\ ps # <<>>
    /\ \A k \in 1..Len(ps) :
          ValidarPagamento(ps[k].forma_pagamento, ps[k].valor,
                           ps[k].numero_parcelas)
    /\ Abs(SomaPagamentos(ps) - valor_total) < Tolerancia

ValidarPagamentosVenda(ps, valor_total) ==
    IF ps = <<>> THEN FALSE
    ELSE IF \E k \in 1..Len(ps) :
              ~ValidarPagamento(ps[k].forma_pagamento, ps[k].valor,
                                ps[k].numero_parcelas)
         THEN FALSE
         ELSE ~DiferencaExcede(ps, valor_total)

(* the amount of an entry that has no 'valor' key (pagamento.get('valor') is
   None) or whose 'valor' is not a number *)
ValorAusente == -1000000

(* validar_pagamento raises TypeError at `valor <= 0` when the amount is not
   a number; the method is looked at first *)
ValidarPagamentoLevanta(forma, valor, parcelas) ==
    forma \in FormasValidas /\ valor = ValorAusente

(* validar_pagamentos_venda has no try block: it raises when the loop reaches
   an entry validar_pagamento raises on, every entry before it being valid *)
ValidarPagamentosVendaLevanta(ps) ==
    \E k \in 1..Len(ps) :
        /\ ValidarPagamentoLevanta(ps[k].forma_pagamento, ps[k].valor,
                                   ps[k].numero_parcelas)
        /\ \A j \in 1..(k - 1) :
              ValidarPagamento(ps[j].forma_pagamento, ps[j].valor,
                               ps[j].numero_parcelas)


---------------------------------------------------------------------------
(* database.py: each function's effect on the remote tables, given how the
   store answered.  r1 answers the first attempt; after a connection error
   reconectar_supabase is tried (reconecta) and r2 answers the second attempt. *)

Executou(r1, reconecta, r2) ==
    r1 = "ok" \/ (r1 = "conexao" /\ reconecta /\ r2 = "ok")

(* The answers that matter: r2 and reconecta are only read after a connection
   error, r2 only after a reconnection. *)
Cenarios ==
    {c \in Respostas \X BOOLEAN \X Respostas :
        /\ c[1] # "conexao" => (c[2] = FALSE /\ c[3] = "ok")
        /\ (c[1] = "conexao" /\ ~c[2]) => c[3] = "ok"}

(* a header whose final total would leave the discount out *)
DadosVendaSemDesconto(c) ==
    [valor_total |-> CalcularSubtotal(c),
     desconto_percentual |-> c.desconto_percentual,
     desconto_valor |-> c.desconto_valor,
     valor_final |-> CalcularSubtotal(c),
     status |-> "finalizada"]

DadosVenda(c) ==
    [valor_total |-> CalcularSubtotal(c),
     desconto_percentual |-> c.desconto_percentual,
     desconto_valor |-> c.desconto_valor,
     valor_final |-> CalcularTotal(c),
     status |-> "finalizada"]

InserirVenda(vs, dados, r1, reconecta, r2) ==
    IF Executou(r1, reconecta, r2)
    THEN [vendas |-> Append(vs, dados), venda_id |-> Len(vs) + 1]
    ELSE [vendas |-> vs, venda_id |-> Nenhum]

ItensDaVenda(itens) ==
    [k \in 1..Len(itens) |->
        [produto_id |-> itens[k].produto_id,
         quantidade |-> itens[k].quantidade,
         preco_unitario |-> itens[k].preco_unitario,
         subtotal |-> ItemSubtotal(itens[k])]]

InserirItensVenda(tab, venda_id, itens, r1, reconecta, r2) ==
    IF itens = <<>> THEN [tabela |-> tab, ok |-> TRUE]
    ELSE IF Executou(r1, reconecta, r2)
    THEN [tabela |-> [tab EXCEPT ![venda_id] = @ \o itens], ok |-> TRUE]
    ELSE [tabela |-> tab, ok |-> FALSE]

InserirPagamentos(tab, venda_id, ps, r1, reconecta, r2) ==
    IF ps = <<>> THEN [tabela |-> tab, ok |-> TRUE]
    ELSE IF Executou(r1, reconecta, r2)
    THEN [tabela |-> [tab EXCEPT ![venda_id] = @ \o ps], ok |-> TRUE]
    ELSE [tabela |-> tab, ok |-> FALSE]

BuscarVendaCompleta(vs, its, venda_id, r1, reconecta, r2) ==
    IF venda_id \in DOMAIN vs /\ Executou(r1, reconecta, r2)
    THEN [encontrada |-> TRUE, status |-> vs[venda_id].status,
          itens |-> its[venda_id]]
    ELSE [encontrada |-> FALSE, status |-> "", itens |-> <<>>]

MarcarVendaCancelada(vs, venda_id, r1, reconecta, r2) ==
    IF venda_id \in DOMAIN vs /\ Executou(r1, reconecta, r2)
    THEN [vendas |-> [vs EXCEPT ![venda_id].status = "cancelada"], ok |-> TRUE]
    ELSE [vendas |-> vs, ok |-> FALSE]

(* registrar_movimentacao.  One attempt is select, update, insert; `falha`
   names the request that fails ("ok": none).  The update and the insert are
   two requests: an attempt that fails at the insert has already changed the
   quantity. *)
FalhasMovimentacao ==
    {"ok", "select_vazio", "select_erro", "select_conexao",
     "update_erro", "update_conexao", "insert_erro", "insert_conexao"}

FalhasDeConexao == {"select_conexao", "update_conexao", "insert_conexao"}

FalhasNaRepeticao == {"ok", "select_vazio", "select_erro", "update_erro", "insert_erro"}

QuantidadeNova(tipo, quantidade_anterior, quantidade) ==
    CASE tipo = "entrada" -> quantidade_anterior + quantidade
      [] tipo = "saida" -> quantidade_anterior - quantidade
      [] OTHER -> quantidade

Tentativa(prod, movs, p, tipo, q, obs, falha) ==
    LET quantidade_anterior == prod[p]
        quantidade_nova == QuantidadeNova(tipo, quantidade_anterior, q)
        atualizado == [prod EXCEPT ![p] = quantidade_nova]
        linha == [produto_id |-> p, tipo |-> tipo, quantidade |-> q,
                  quantidade_anterior |-> quantidade_anterior,
                  quantidade_nova |-> quantidade_nova, observacao |-> obs]
    IN
    CASE falha = "ok" -> [produtos |-> atualizado, movimentacoes |-> Append(movs, linha)]
      [] falha \in {"insert_erro", "insert_conexao"} ->
            [produtos |-> atualizado, movimentacoes |-> movs]
      [] OTHER -> [produtos |-> prod, movimentacoes |-> movs]

RegistrarMovimentacao(prod, movs, p, tipo, q, obs, f1, reconecta, f2) ==
    IF tipo \notin TiposMovimentacao \/ q <= 0
    THEN [produtos |-> prod, movimentacoes |-> movs, ok |-> FALSE]
    ELSE
      LET t1 == Tentativa(prod, movs, p, tipo, q, obs, f1) IN
      IF f1 = "ok"
      THEN [produtos |-> t1.produtos, movimentacoes |-> t1.movimentacoes, ok |-> TRUE]
      ELSE IF f1 \in FalhasDeConexao /\ reconecta
      THEN LET t2 == Tentativa(t1.produtos, t1.movimentacoes, p, tipo, q, obs, f2)
           IN [produtos |-> t2.produtos, movimentacoes |-> t2.movimentacoes,
               ok |-> f2 = "ok"]
      ELSE [produtos |-> t1.produtos, movimentacoes |-> t1.movimentacoes, ok |-> FALSE]

CenariosDeMovimentacao ==
    {c \in FalhasMovimentacao \X BOOLEAN \X FalhasNaRepeticao :
        /\ c[1] \notin FalhasDeConexao => (c[2] = FALSE /\ c[3] = "ok")
        /\ (c[1] \in FalhasDeConexao /\ ~c[2]) => c[3] = "ok"}

Observacao(texto, venda_id) == [texto |-> texto, venda |-> venda_id]

---------------------------------------------------------------------------
(* Bookkeeping of the running operation *)

Chamada(fn, p, tipo, q, venda_id, ok) ==
    [fn |-> fn, produto_id |-> p, tipo |-> tipo, quantidade |-> q,
     venda |-> venda_id, ok |-> ok]

(* the selects validar_disponibilidade issued: one per line read *)
Selects(itens, respostas, lidos) ==
    [k \in 1..lidos |->
        Chamada("select_produto", itens[k].produto_id, "", 0, Nenhum,
                respostas[k] = "ok")]

Escritas == {"inserir_venda", "inserir_itens_venda", "inserir_pagamentos",
             "registrar_movimentacao", "marcar_venda_cancelada"}

LocInicial ==
    [op |-> "", pagamentos |-> <<>>, venda_id |-> Nenhum, i |-> 0,
     itens |-> <<>>, itens_com_erro |-> <<>>, disponivel |-> FALSE,
     valido |-> FALSE]

Retorno(op, sucesso, msg, venda_id, produto, itens_com_erro) ==
    [op |-> op, sucesso |-> sucesso, msg |-> msg, venda_id |-> venda_id,
     produto |-> produto, itens_com_erro |-> itens_com_erro]

RetInicial == Retorno("", FALSE, "", Nenhum, Nenhum, <<>>)

Instantaneo ==
    [carrinho |-> carrinho, produtos |-> produtos, vendas |-> vendas,
     itens_venda |-> itens_venda, pagamentos |-> pagamentos,
     movimentacoes |-> movimentacoes]

AntesInicial ==
    [carrinho |-> CarrinhoVazio, produtos |-> [p \in Produtos |-> EstoqueInicial],
     vendas |-> <<>>, itens_venda |-> <<>>, pagamentos |-> <<>>,
     movimentacoes |-> <<>>]

(* the locals are gone when the operation returns; what it decided on stays *)
LocFinal(l) ==
    [LocInicial EXCEPT !.op = l.op, !.disponivel = l.disponivel, !.valido = l.valido]

Init ==
    /\ carrinho = CarrinhoVazio
    /\ produtos = [p \in Produtos |-> EstoqueInicial]
    /\ movimentacoes = <<>>
    /\ vendas = <<>>
    /\ itens_venda = <<>>
    /\ pagamentos = <<>>
    /\ pc = "idle"
    /\ loc = LocInicial
    /\ ret = RetInicial
    /\ chamadas = <<>>
    /\ antes = AntesInicial
    /\ edicoes = 0


---------------------------------------------------------------------------
(* Cart operations (each is one handler of the sales screen and runs to its
   end; adicionar_produto issues one select). *)

(* the quantity arguments adicionar_produto is called with: it accepts any
   integer, zero included *)
Quantidades == 0..EstoqueInicial

Percentuais == {50, 101}
ValoresDesconto == {5000, 90000}

OperacaoDoCarrinho(novo) ==
    /\ edicoes < MaxEdicoes
    /\ edicoes' = edicoes + 1
    /\ carrinho' = novo
    /\ ret' = RetInicial
    /\ chamadas' = <<>>
    /\ antes' = AntesInicial
    /\ loc' = LocInicial
    /\ pc' = "idle"
    /\ UNCHANGED remoto

AdicionarProduto ==
    /\ pc = "idle"
    /\ \E p \in Produtos, q \in Quantidades, r \in {"ok", "vazio", "erro"} :
         LET a == IF r = "ok"
                  THEN AdicionarAoCarrinho(carrinho, p, q, produtos[p])
                  ELSE [ok |-> FALSE, carrinho |-> carrinho]
         IN OperacaoDoCarrinho(a.carrinho)

RemoverProduto ==
    /\ pc = "idle"
    /\ \E p \in Produtos :
         LET k == IndiceDe(carrinho.itens, p) IN
         OperacaoDoCarrinho(
            IF k = Nenhum THEN carrinho
            ELSE [carrinho EXCEPT !.itens =
                    SubSeq(@, 1, k - 1) \o SubSeq(@, k + 1, Len(@))])

AtualizarQuantidade ==
    /\ pc = "idle"
    /\ \E p \in Produtos, q \in 0..(EstoqueInicial + 1) :
         OperacaoDoCarrinho(AtualizarQuantidadeEm(carrinho, p, q).carrinho)

AplicarDescontoPercentual ==
    /\ pc = "idle"
    /\ \E percentual \in Percentuais :
         LET a == AplicarDescontoPercentualEm(carrinho, percentual)
         IN OperacaoDoCarrinho(a.carrinho)

AplicarDescontoValor ==
    /\ pc = "idle"
    /\ \E valor \in ValoresDesconto :
         LET a == AplicarDescontoValorEm(carrinho, valor)
         IN OperacaoDoCarrinho(a.carrinho)

RemoverDesconto ==
    /\ pc = "idle"
    /\ OperacaoDoCarrinho(
          [carrinho EXCEPT !.desconto_percentual = 0, !.desconto_valor = 0])

---------------------------------------------------------------------------
(* finalizar_venda *)

(* the payment lists the seller may hand in for a cart of total `total` *)
ListasDePagamento(total) ==
    { <<>>,
      <<Pagamento("dinheiro", total, Nenhum)>>,
      <<Pagamento("dinheiro", total + Tolerancia + 1, Nenhum)>>,
      <<Pagamento("cartao_credito", total, Nenhum)>> }

(* a finalizar_venda that would not check the payments before persisting *)
DecisaoSemValidarPagamentos(vazio, disponivel, valido) ==
    IF vazio THEN "carrinho_vazio"
    ELSE IF ~disponivel THEN "estoque_insuficiente"
    ELSE "inserir_venda"

(* the guards before the try block: what finalizar_venda does first *)
DecisaoInicial(vazio, disponivel, valido) ==
    IF vazio THEN "carrinho_vazio"
    ELSE IF ~disponivel THEN "estoque_insuficiente"
    ELSE IF ~valido THEN "pagamentos_invalidos"
    ELSE "inserir_venda"

(* a try block that would go on after a failed insert of the line items *)
ProximoPassoSemParar(passo, ok, ultimo) ==
    CASE passo = "inserir_venda" ->
            IF ok THEN "inserir_itens_venda" ELSE "fim"
      [] passo = "inserir_itens_venda" -> "inserir_pagamentos"
      [] passo = "inserir_pagamentos" ->
            IF ok THEN "baixa_estoque" ELSE "fim"
      [] OTHER ->
            IF ok /\ ~ultimo THEN "baixa_estoque" ELSE "fim"

(* the try block's control flow: the step after `passo`, which answered ok;
   ultimo: the cart line just handled was the last one *)
ProximoPasso(passo, ok, ultimo) ==
    CASE passo = "inserir_venda" ->
            IF ok THEN "inserir_itens_venda" ELSE "fim"
      [] passo = "inserir_itens_venda" ->
            IF ok THEN "inserir_pagamentos" ELSE "fim"
      [] passo = "inserir_pagamentos" ->
            IF ok THEN "baixa_estoque" ELSE "fim"
      [] OTHER ->
            IF ok /\ ~ultimo THEN "baixa_estoque" ELSE "fim"

(* a result that would carry the sale id only on success *)
ResultadoSemId(passo, ok, venda_id, produto) ==
    IF passo = "baixa_estoque" /\ ok
    THEN Retorno("finalizar_venda", TRUE, "ok", venda_id, Nenhum, <<>>)
    ELSE Retorno("finalizar_venda", FALSE, "erro", Nenhum, produto, <<>>)

(* a result that would not name the product of the failed stock step *)
ResultadoSemProduto(passo, ok, venda_id, produto) ==
    CASE passo = "inserir_venda" ->
            Retorno("finalizar_venda", FALSE, "erro_venda", Nenhum, Nenhum, <<>>)
      [] passo = "inserir_itens_venda" ->
            Retorno("finalizar_venda", FALSE, "erro_itens", venda_id, Nenhum, <<>>)
      [] passo = "inserir_pagamentos" ->
            Retorno("finalizar_venda", FALSE, "erro_pagamentos", venda_id, Nenhum, <<>>)
      [] OTHER ->
            IF ok
            THEN Retorno("finalizar_venda", TRUE, "ok", venda_id, Nenhum, <<>>)
            ELSE Retorno("finalizar_venda", FALSE, "erro_baixa", venda_id, Nenhum, <<>>)

(* what finalizar_venda returns when it ends at `passo`: (sucesso, message,
   venda_id); the message of a failed stock step names the line's product *)
ResultadoFinalizar(passo, ok, venda_id, produto) ==
    CASE passo = "inserir_venda" ->
            Retorno("finalizar_venda", FALSE, "erro_venda", Nenhum, Nenhum, <<>>)
      [] passo = "inserir_itens_venda" ->
            Retorno("finalizar_venda", FALSE, "erro_itens", venda_id, Nenhum, <<>>)
      [] passo = "inserir_pagamentos" ->
            Retorno("finalizar_venda", FALSE, "erro_pagamentos", venda_id, Nenhum, <<>>)
      [] OTHER ->
            IF ok
            THEN Retorno("finalizar_venda", TRUE, "ok", venda_id, Nenhum, <<>>)
            ELSE Retorno("finalizar_venda", FALSE, "erro_baixa", venda_id, produto, <<>>)

(* a finalizar_venda that would clear the cart however it ends *)
CarrinhoSempreLimpo(c, sucesso) == Limpar(c)

(* the cart when finalizar_venda ends: cleared after the last step succeeded *)
CarrinhoAoTerminar(c, sucesso) == IF sucesso THEN Limpar(c) ELSE c

(* the part of finalizar_venda before its try block, payment validation
   included: an exception raised there leaves finalizar_venda ("excecao") *)
PrimeiroPasso(vazio, disponivel, levanta, valido) ==
    IF ~vazio /\ disponivel /\ levanta THEN "excecao"
    ELSE DecisaoInicial(vazio, disponivel, valido)

(* finalizar_venda called with one of the payment lists `listas` *)
IniciarFinalizarVenda(listas) ==
    /\ pc = "idle"
    /\ Len(vendas) < MaxVendas
    /\ \E ps \in listas,
          respostas \in [1..Len(carrinho.itens) -> {"ok", "vazio", "erro"}] :
         LET v == ValidarDisponibilidade(carrinho, produtos, respostas)
             levanta == ValidarPagamentosVendaLevanta(ps)
             valido == ~levanta /\ ValidarPagamentosVenda(ps, CalcularTotal(v.carrinho))
             d == PrimeiroPasso(carrinho.itens = <<>>, v.disponivel, levanta, valido)
             l == [LocInicial EXCEPT !.op = "finalizar_venda",
                                     !.pagamentos = ps,
                                     !.disponivel = v.disponivel,
                                     !.valido = valido]
         IN /\ carrinho' = v.carrinho
            /\ chamadas' = Selects(carrinho.itens, respostas, v.lidos)
            /\ antes' = Instantaneo
            /\ IF d \in {"inserir_venda", "excecao"}
               THEN /\ pc' = d
                    /\ ret' = RetInicial
                    /\ loc' = l
               ELSE /\ pc' = "idle"
                    /\ ret' = Retorno("finalizar_venda", FALSE, d, Nenhum, Nenhum, <<>>)
                    /\ loc' = LocFinal(l)
            /\ UNCHANGED <<remoto, edicoes>>

FinalizarVenda == IniciarFinalizarVenda(ListasDePagamento(CalcularTotal(carrinho)))

(* the end of one step of the try block *)
Avancar(passo, ok, ultimo, l, produto) ==
    LET proximo == ProximoPasso(passo, ok, ultimo) IN
    IF proximo = "fim"
    THEN LET r == ResultadoFinalizar(passo, ok, l.venda_id, produto) IN
         /\ pc' = "idle"
         /\ ret' = r
         /\ loc' = LocFinal(l)
         /\ carrinho' = CarrinhoAoTerminar(carrinho, r.sucesso)
    ELSE /\ pc' = proximo
         /\ loc' = l
         /\ UNCHANGED <<ret, carrinho>>

FinalizarInserirVenda ==
    /\ pc = "inserir_venda"
    /\ \E cen \in Cenarios :
         LET r1 == cen[1]
             reconecta == cen[2]
             r2 == cen[3]
             r == InserirVenda(vendas, DadosVenda(carrinho), r1, reconecta, r2)
             ok == r.venda_id # Nenhum
         IN /\ vendas' = r.vendas
            /\ itens_venda' = IF ok THEN Append(itens_venda, <<>>) ELSE itens_venda
            /\ pagamentos' = IF ok THEN Append(pagamentos, <<>>) ELSE pagamentos
            /\ chamadas' = Append(chamadas,
                  Chamada("inserir_venda", Nenhum, "", 0, r.venda_id, ok))
            /\ Avancar("inserir_venda", ok, FALSE,
                       [loc EXCEPT !.venda_id = r.venda_id], Nenhum)
            /\ UNCHANGED <<produtos, movimentacoes, antes, edicoes>>

FinalizarInserirItens ==
    /\ pc = "inserir_itens_venda"
    /\ \E cen \in Cenarios :
         LET r1 == cen[1]
             reconecta == cen[2]
             r2 == cen[3]
             r == InserirItensVenda(itens_venda, loc.venda_id,
                                    ItensDaVenda(carrinho.itens), r1, reconecta, r2)
         IN /\ itens_venda' = r.tabela
            /\ chamadas' = Append(chamadas,
                  Chamada("inserir_itens_venda", Nenhum, "", 0, loc.venda_id, r.ok))
            /\ Avancar("inserir_itens_venda", r.ok, FALSE, loc, Nenhum)
            /\ UNCHANGED <<produtos, movimentacoes, vendas, pagamentos, antes, edicoes>>

FinalizarInserirPagamentos ==
    /\ pc = "inserir_pagamentos"
    /\ \E cen \in Cenarios :
         LET r1 == cen[1]
             reconecta == cen[2]
             r2 == cen[3]
             r == InserirPagamentos(pagamentos, loc.venda_id, loc.pagamentos,
                                    r1, reconecta, r2)
         IN /\ pagamentos' = r.tabela
            /\ chamadas' = Append(chamadas,
                  Chamada("inserir_pagamentos", Nenhum, "", 0, loc.venda_id, r.ok))
            /\ Avancar("inserir_pagamentos", r.ok, FALSE, [loc EXCEPT !.i = 1], Nenhum)
            /\ UNCHANGED <<produtos, movimentacoes, vendas, itens_venda, antes, edicoes>>

FinalizarBaixaEstoque ==
    /\ pc = "baixa_estoque"
    /\ \E cen \in CenariosDeMovimentacao :
         LET f1 == cen[1]
             reconecta == cen[2]
             f2 == cen[3]
             item == carrinho.itens[loc.i]
             r == RegistrarMovimentacao(produtos, movimentacoes, item.produto_id,
                     "saida", item.quantidade, Observacao("Venda", loc.venda_id),
                     f1, reconecta, f2)
         IN /\ produtos' = r.produtos
            /\ movimentacoes' = r.movimentacoes
            /\ chamadas' = Append(chamadas,
                  Chamada("registrar_movimentacao", item.produto_id, "saida",
                          item.quantidade, loc.venda_id, r.ok))
            /\ Avancar("baixa_estoque", r.ok, loc.i = Len(carrinho.itens),
                       [loc EXCEPT !.i = @ + 1], item.produto_id)
            /\ UNCHANGED <<vendas, itens_venda, pagamentos, antes, edicoes>>

---------------------------------------------------------------------------
(* cancelar_venda *)

(* a cancelar_venda that would not look at the status it fetched *)
DecisaoCancelarSemStatus(encontrada, status) ==
    IF ~encontrada THEN "nao_encontrada" ELSE "marcar_venda_cancelada"

DecisaoCancelar(encontrada, status) ==
    IF ~encontrada THEN "nao_encontrada"
    ELSE IF status = "cancelada" THEN "ja_cancelada"
    ELSE "marcar_venda_cancelada"

(* a line item the restock loop does not skip *)
ItemCompleto(item) == item.produto_id # Nenhum /\ item.quantidade # 0

(* a cancelar_venda that would restock whatever the mark answered *)
ProximoPassoCancelarSemMarca(passo, ok, ultimo) ==
    IF ultimo THEN "fim" ELSE "estorno"

(* the step after `passo`; ultimo: no line item is left *)
ProximoPassoCancelar(passo, ok, ultimo) ==
    CASE passo = "marcar_venda_cancelada" ->
            IF ~ok THEN "fim" ELSE IF ultimo THEN "fim" ELSE "estorno"
      [] OTHER ->
            IF ultimo THEN "fim" ELSE "estorno"

(* a cancelar_venda that would report success once the mark succeeded *)
ResultadoCancelarSempreOk(passo, ok, itens_com_erro) ==
    IF passo = "marcar_venda_cancelada" /\ ~ok
    THEN Retorno("cancelar_venda", FALSE, "erro_marcar", Nenhum, Nenhum, <<>>)
    ELSE Retorno("cancelar_venda", TRUE, "ok", Nenhum, Nenhum, <<>>)

ResultadoCancelar(passo, ok, itens_com_erro) ==
    CASE passo = "marcar_venda_cancelada" ->
            IF ok
            THEN Retorno("cancelar_venda", TRUE, "ok_sem_itens", Nenhum, Nenhum, <<>>)
            ELSE Retorno("cancelar_venda", FALSE, "erro_marcar", Nenhum, Nenhum, <<>>)
      [] OTHER ->
            IF itens_com_erro # <<>>
            THEN Retorno("cancelar_venda", FALSE, "erro_estorno", Nenhum, Nenhum,
                         itens_com_erro)
            ELSE Retorno("cancelar_venda", TRUE, "ok", Nenhum, Nenhum, <<>>)

AvancarCancelar(passo, ok, ultimo, l) ==
    LET proximo == ProximoPassoCancelar(passo, ok, ultimo) IN
    IF proximo = "fim"
    THEN /\ pc' = "idle"
         /\ ret' = ResultadoCancelar(passo, ok, l.itens_com_erro)
         /\ loc' = [LocFinal(l) EXCEPT !.venda_id = l.venda_id]
    ELSE /\ pc' = proximo
         /\ loc' = l
         /\ UNCHANGED ret

CancelarVenda ==
    /\ pc = "idle"
    /\ \E venda_id \in 1..MaxVendas, cen \in Cenarios :
         LET r1 == cen[1]
             reconecta == cen[2]
             r2 == cen[3]
             b == BuscarVendaCompleta(vendas, itens_venda, venda_id, r1, reconecta, r2)
             d == DecisaoCancelar(b.encontrada, b.status)
         IN /\ chamadas' = <<Chamada("buscar_venda_completa", Nenhum, "", 0,
                                     venda_id, b.encontrada)>>
            /\ antes' = Instantaneo
            /\ IF d = "marcar_venda_cancelada"
               THEN /\ pc' = d
                    /\ ret' = RetInicial
                    /\ loc' = [LocInicial EXCEPT !.op = "cancelar_venda",
                                                 !.venda_id = venda_id,
                                                 !.itens = b.itens]
               ELSE /\ pc' = "idle"
                    /\ ret' = Retorno("cancelar_venda", FALSE, d, Nenhum, Nenhum, <<>>)
                    /\ loc' = [LocInicial EXCEPT !.op = "cancelar_venda",
                                                 !.venda_id = venda_id]
            /\ UNCHANGED <<carrinho, remoto, edicoes>>

CancelarMarcar ==
    /\ pc = "marcar_venda_cancelada"
    /\ \E cen \in Cenarios :
         LET r1 == cen[1]
             reconecta == cen[2]
             r2 == cen[3]
             m == MarcarVendaCancelada(vendas, loc.venda_id, r1, reconecta, r2)
         IN /\ vendas' = m.vendas
            /\ chamadas' = Append(chamadas,
                  Chamada("marcar_venda_cancelada", Nenhum, "", 0, loc.venda_id, m.ok))
            /\ AvancarCancelar("marcar_venda_cancelada", m.ok, loc.itens = <<>>,
                               [loc EXCEPT !.i = 1])
            /\ UNCHANGED <<carrinho, produtos, movimentacoes, itens_venda,
                           pagamentos, antes, edicoes>>

CancelarEstorno ==
    /\ pc = "estorno"
    /\ \E cen \in CenariosDeMovimentacao :
         LET f1 == cen[1]
             reconecta == cen[2]
             f2 == cen[3]
             item == loc.itens[loc.i]
             completo == ItemCompleto(item)
             r == IF completo
                  THEN RegistrarMovimentacao(produtos, movimentacoes,
                          item.produto_id, "entrada", item.quantidade,
                          Observacao("Estorno de venda", loc.venda_id),
                          f1, reconecta, f2)
                  ELSE [produtos |-> produtos, movimentacoes |-> movimentacoes,
                        ok |-> TRUE]
             erros == IF r.ok THEN loc.itens_com_erro
                      ELSE Append(loc.itens_com_erro, item.produto_id)
         IN /\ produtos' = r.produtos
            /\ movimentacoes' = r.movimentacoes
            /\ chamadas' = IF completo
                           THEN Append(chamadas,
                                  Chamada("registrar_movimentacao", item.produto_id,
                                          "entrada", item.quantidade, loc.venda_id, r.ok))
                           ELSE chamadas
            /\ AvancarCancelar("estorno", r.ok, loc.i = Len(loc.itens),
                               [loc EXCEPT !.i = @ + 1, !.itens_com_erro = erros])
            /\ UNCHANGED <<carrinho, vendas, itens_venda, pagamentos, antes, edicoes>>

---------------------------------------------------------------------------

Next ==
    \/ AdicionarProduto
    \/ RemoverProduto
    \/ AtualizarQuantidade
    \/ AplicarDescontoPercentual
    \/ AplicarDescontoValor
    \/ RemoverDesconto
    \/ FinalizarVenda
    \/ FinalizarInserirVenda
    \/ FinalizarInserirItens
    \/ FinalizarInserirPagamentos
    \/ FinalizarBaixaEstoque
    \/ CancelarVenda
    \/ CancelarMarcar
    \/ CancelarEstorno

Spec == Init /\ [][Next]_vars

---------------------------------------------------------------------------
(* The sale lifecycle called with payment entries of any shape: besides the
   lists above, lists with an entry whose amount is missing or not a number. *)

ListasComValorAusente(total) ==
    { <<Pagamento("dinheiro", ValorAusente, Nenhum)>>,
      <<Pagamento("cheque", ValorAusente, Nenhum)>>,
      <<Pagamento("dinheiro", total, Nenhum), Pagamento("pix", ValorAusente, Nenhum)>>,
      <<Pagamento("cheque", total, Nenhum), Pagamento("pix", ValorAusente, Nenhum)>> }

FinalizarVendaComQualquerEntrada ==
    IniciarFinalizarVenda(ListasDePagamento(CalcularTotal(carrinho))
                          \cup ListasComValorAusente(CalcularTotal(carrinho)))

(* the exception reaches the screen's handler, which has no try block either;
   the screen stays as it was, with its cart *)
ExcecaoNaTela ==
    /\ pc = "excecao"
    /\ pc' = "idle"
    /\ ret' = RetInicial
    /\ loc' = LocFinal(loc)
    /\ UNCHANGED <<carrinho, remoto, chamadas, antes, edicoes>>

NextFronteira ==
    \/ AdicionarProduto
    \/ RemoverProduto
    \/ AtualizarQuantidade
    \/ AplicarDescontoPercentual
    \/ AplicarDescontoValor
    \/ RemoverDesconto
    \/ FinalizarVendaComQualquerEntrada
    \/ ExcecaoNaTela
    \/ FinalizarInserirVenda
    \/ FinalizarInserirItens
    \/ FinalizarInserirPagamentos
    \/ FinalizarBaixaEstoque
    \/ CancelarVenda
    \/ CancelarMarcar
    \/ CancelarEstorno

SpecFronteira == Init /\ [][NextFronteira]_vars

---------------------------------------------------------------------------
(* registrar_movimentacao on its own: calls with any product, kind and
   quantity, and every way the three requests of an attempt and of its
   repetition after a reconnection can fail. *)

MaxMovimentacoes == 2

TiposQuaisquer == TiposMovimentacao \cup {"devolucao"}
QuantidadesDeMovimentacao == 0..EstoqueInicial

ArgumentosDaMovimentacao(p, tipo, q, cen) ==
    [op |-> "registrar_movimentacao", produto_id |-> p, tipo |-> tipo,
     quantidade |-> q, falha |-> cen[1], reconecta |-> cen[2],
     falha_na_repeticao |-> cen[3]]

ChamarRegistrarMovimentacao ==
    /\ pc = "idle"
    /\ edicoes < MaxMovimentacoes
    /\ \E p \in Produtos, tipo \in TiposQuaisquer,
          q \in QuantidadesDeMovimentacao, cen \in CenariosDeMovimentacao :
         LET r == RegistrarMovimentacao(produtos, movimentacoes, p, tipo, q,
                     Observacao("", Nenhum), cen[1], cen[2], cen[3])
         IN /\ produtos' = r.produtos
            /\ movimentacoes' = r.movimentacoes
            /\ ret' = Retorno("registrar_movimentacao", r.ok, "", Nenhum, p, <<>>)
            /\ loc' = ArgumentosDaMovimentacao(p, tipo, q, cen)
            /\ chamadas' = <<Chamada("registrar_movimentacao", p, tipo, q, Nenhum, r.ok)>>
    /\ antes' = Instantaneo
    /\ edicoes' = edicoes + 1
    /\ pc' = "idle"
    /\ UNCHANGED <<carrinho, vendas, itens_venda, pagamentos>>

NextMovimentacao == ChamarRegistrarMovimentacao

SpecMovimentacao == Init /\ [][NextMovimentacao]_vars

---------------------------------------------------------------------------
(* What the properties below speak about *)

EhEscrita(c) == c.fn \in Escritas

(* the write calls of the running / last operation, in the order issued *)
EscritasFeitas == SelectSeq(chamadas, EhEscrita)

EhEntrada(c) == c.fn = "registrar_movimentacao" /\ c.tipo = "entrada"

EhSaida(c) == c.fn = "registrar_movimentacao" /\ c.tipo = "saida"

EhMarcacao(c) == c.fn = "marcar_venda_cancelada"

TabelasComoAntes ==
    /\ produtos = antes.produtos
    /\ movimentacoes = antes.movimentacoes
    /\ vendas = antes.vendas
    /\ itens_venda = antes.itens_venda
    /\ pagamentos = antes.pagamentos

(* the lines of a cart: product and quantity, in order *)
Linhas(c) ==
    [k \in 1..Len(c.itens) |-> <<c.itens[k].produto_id, c.itens[k].quantidade>>]

FinalizarTerminou == pc = "idle" /\ ret.op = "finalizar_venda"

CancelarTerminou == pc = "idle" /\ ret.op = "cancelar_venda"

(* C1: finalizar_venda persists nothing on a validation failure: with an empty
   cart it issues no remote call at all; when validar_disponibilidade reports a
   problem or validar_pagamentos_venda rejects the payments it ends at once,
   fails, has issued no write, has changed no table and returns no sale id. *)
C1_ValidacaoNadaPersiste ==
    (/\ loc.op = "finalizar_venda"
     /\ \/ antes.carrinho.itens = <<>>
        \/ ~loc.disponivel
        \/ ~loc.valido)
    => /\ pc = "idle"
       /\ ~ret.sucesso
       /\ ret.venda_id = Nenhum
       /\ EscritasFeitas = <<>>
       /\ TabelasComoAntes
       /\ antes.carrinho.itens = <<>> => chamadas = <<>>

(* a finalize of a non-empty, available cart that the payment check rejected *)
C1_PagamentosRejeitados ==
    /\ FinalizarTerminou
    /\ antes.carrinho.itens # <<>>
    /\ loc.disponivel
    /\ ~loc.valido
    /\ chamadas # <<>>

(* the order finalizar_venda persists in, before the stock movements *)
OrdemDasEscritas == <<"inserir_venda", "inserir_itens_venda", "inserir_pagamentos">>

(* C2: finalizar_venda is fail-fast across its persistence steps, in the fixed
   order header -> line items -> payments -> stock movements: every write call
   it issues is the next one of that order (the k-th stock movement being the
   'saida' of the k-th cart line), it is issued only after the call before it
   succeeded, so no step is repeated and nothing follows a failed step, and
   what an earlier step persisted is still there. *)
C2_FalhaInterrompe ==
    loc.op = "finalizar_venda" =>
        LET e == EscritasFeitas
            n == Len(e)
            linhas == antes.carrinho.itens
        IN /\ n <= 3 + Len(linhas)
           /\ \A k \in 1..n :
                /\ k <= 3 => e[k].fn = OrdemDasEscritas[k]
                /\ k > 3 => /\ EhSaida(e[k])
                            /\ e[k].produto_id = linhas[k - 3].produto_id
                /\ k > 1 => e[k - 1].ok
                /\ k > 1 => e[k].venda = e[1].venda
           /\ (n >= 1 /\ e[1].ok) =>
                /\ e[1].venda \in 1..Len(vendas)
                /\ e[1].venda \notin 1..Len(antes.vendas)
                /\ vendas[e[1].venda].status = "finalizada"
           /\ (n >= 2 /\ e[2].ok) =>
                itens_venda[e[1].venda] = ItensDaVenda(linhas)
           /\ (n >= 3 /\ e[3].ok) =>
                pagamentos[e[1].venda] # <<>>
           /\ (pc = "idle" /\ n >= 1 /\ ~e[n].ok) => ~ret.sucesso

(* a finalize that ended when inserir_itens_venda failed: the header stays *)
C2_ItensFalharam ==
    /\ FinalizarTerminou
    /\ Len(EscritasFeitas) = 2
    /\ EscritasFeitas[1].ok
    /\ ~EscritasFeitas[2].ok
    /\ Len(vendas) = Len(antes.vendas) + 1

(* the stock-movement calls of the running / last operation *)
Saidas == SelectSeq(chamadas, EhSaida)

Entradas == SelectSeq(chamadas, EhEntrada)

(* C3: in finalizar_venda's stock-decrement loop the first line whose
   registrar_movimentacao('saida') returns False ends the loop: the failed call
   is the last one issued (no later line is called, no 'entrada' compensates),
   every earlier line was called once with its quantity and its product's
   stock is below what it was, the cart is as it was, and the result is a
   failure carrying the sale id and naming the failed line's product. *)
C3_BaixaParaNaPrimeiraFalha ==
    (/\ FinalizarTerminou
     /\ \E k \in 1..Len(Saidas) : ~Saidas[k].ok)
    => LET n == Len(Saidas)
           linhas == antes.carrinho.itens
       IN /\ n <= Len(linhas)
          /\ ~Saidas[n].ok
          /\ chamadas[Len(chamadas)] = Saidas[n]
          /\ Entradas = <<>>
          /\ \A k \in 1..(n - 1) :
                /\ Saidas[k].ok
                /\ Saidas[k].produto_id = linhas[k].produto_id
                /\ Saidas[k].quantidade = linhas[k].quantidade
                /\ produtos[linhas[k].produto_id]
                      < antes.produtos[linhas[k].produto_id]
          /\ carrinho = antes.carrinho
          /\ ~ret.sucesso
          /\ ret.venda_id # Nenhum
          /\ ret.venda_id = Saidas[n].venda
          /\ ret.venda_id = Len(vendas)
          /\ ret.produto = linhas[n].produto_id

(* the second line of a two-line cart failed after the first was decremented *)
C3_SegundaLinhaFalhou ==
    /\ FinalizarTerminou
    /\ Len(antes.carrinho.itens) = 2
    /\ Len(Saidas) = 2
    /\ Saidas[1].ok
    /\ ~Saidas[2].ok
    /\ antes.carrinho.itens[2].quantidade > 0

(* every step of the last finalizar_venda succeeded: the validations passed,
   no call failed and the loop reached the last cart line *)
TodosOsPassosComSucesso ==
    /\ FinalizarTerminou
    /\ antes.carrinho.itens # <<>>
    /\ loc.disponivel
    /\ loc.valido
    /\ \A k \in 1..Len(chamadas) : chamadas[k].ok
    /\ Len(Saidas) = Len(antes.carrinho.itens)

(* C4: when every step of finalizar_venda succeeds it returns success with the
   id of the new sale, the persisted header's final total equals the cart
   total, exactly one 'saida' movement was issued per cart line with that
   line's quantity (and one ledger row of the sale records it), and the cart
   ends with no lines and both discounts zero. *)
C4_SucessoCompleto ==
    TodosOsPassosComSucesso =>
        LET linhas == antes.carrinho.itens
            id == ret.venda_id
        IN /\ ret.sucesso
           /\ id = Len(antes.vendas) + 1
           /\ id = Len(vendas)
           /\ vendas[id].valor_final = CalcularTotal(antes.carrinho)
           /\ vendas[id].valor_total = CalcularSubtotal(antes.carrinho)
           /\ \A k \in 1..Len(linhas) :
                /\ Saidas[k].produto_id = linhas[k].produto_id
                /\ Saidas[k].quantidade = linhas[k].quantidade
                /\ Saidas[k].venda = id
                /\ Cardinality({j \in 1..Len(movimentacoes) :
                        /\ movimentacoes[j].produto_id = linhas[k].produto_id
                        /\ movimentacoes[j].tipo = "saida"
                        /\ movimentacoes[j].quantidade = linhas[k].quantidade
                        /\ movimentacoes[j].observacao = Observacao("Venda", id)}) = 1
           /\ carrinho.itens = <<>>
           /\ carrinho.desconto_percentual = 0
           /\ carrinho.desconto_valor = 0

(* a discounted two-line cart was sold *)
C4_VendaComDesconto ==
    /\ TodosOsPassosComSucesso
    /\ Len(antes.carrinho.itens) = 2
    /\ CalcularDesconto(antes.carrinho) > 0
    /\ ret.sucesso

(* C5: the cart is cleared by finalizar_venda if and only if it returns
   success: after a successful finalize the cart has no lines and no discount,
   after any failed one (validation, header, items, payments or stock step) it
   holds the same lines with the same quantities and the same discount fields
   as before the call. *)
C5_CarrinhoLimpoSoNoSucesso ==
    FinalizarTerminou =>
        /\ ret.sucesso => carrinho = CarrinhoVazio
        /\ ~ret.sucesso =>
              /\ Linhas(carrinho) = Linhas(antes.carrinho)
              /\ carrinho.desconto_percentual = antes.carrinho.desconto_percentual
              /\ carrinho.desconto_valor = antes.carrinho.desconto_valor

(* a finalize of a discounted cart failed after the header was created *)
C5_FalhaDepoisDoCabecalho ==
    /\ FinalizarTerminou
    /\ ~ret.sucesso
    /\ Len(vendas) > Len(antes.vendas)
    /\ carrinho.itens # <<>>
    /\ CalcularDesconto(carrinho) > 0

(* C6: the result of finalizar_venda carries a sale id if and only if a sale
   header was durably created by the call, and the id is that header's: a
   failure before or at header creation returns None, a failure after it
   (items, payments, stock decrement) returns the id of the created header. *)
C6_IdSeCabecalhoCriado ==
    FinalizarTerminou =>
        /\ ret.venda_id # Nenhum <=> Len(vendas) > Len(antes.vendas)
        /\ ret.venda_id # Nenhum =>
              /\ ret.venda_id = Len(vendas)
              /\ Len(vendas) = Len(antes.vendas) + 1

(* a finalize failed at the payments insert and returned the header's id *)
C6_FalhaComId ==
    /\ FinalizarTerminou
    /\ ~ret.sucesso
    /\ ret.venda_id # Nenhum
    /\ Len(EscritasFeitas) = 3
    /\ ~EscritasFeitas[3].ok

Marcacoes == SelectSeq(chamadas, EhMarcacao)

(* the sale the running / last cancelar_venda was asked to cancel existed and
   was not cancelled when the call began *)
VendaCancelavel ==
    /\ loc.venda_id \in 1..Len(antes.vendas)
    /\ antes.vendas[loc.venda_id].status # "cancelada"

(* C7: cancelar_venda issues the mark-cancelled update only when the fetched
   sale exists and is not 'cancelada', and issues restock movements only after
   that update reported success: for a missing or already cancelled sale it
   fails with no update and no stock movement, and when
   marcar_venda_cancelada fails it fails with no stock movement. *)
C7_MarcaAntesDeEstornar ==
    loc.op = "cancelar_venda" =>
        /\ Len(Marcacoes) <= 1
        /\ Marcacoes # <<>> => (VendaCancelavel /\ chamadas[1].ok)
        /\ Entradas # <<>> => (Marcacoes # <<>> /\ Marcacoes[1].ok)
        /\ ~VendaCancelavel =>
              /\ pc = "idle"
              /\ ~ret.sucesso
              /\ EscritasFeitas = <<>>
              /\ TabelasComoAntes
        /\ (Marcacoes # <<>> /\ ~Marcacoes[1].ok) =>
              /\ pc = "idle"
              /\ ~ret.sucesso
              /\ Entradas = <<>>
              /\ TabelasComoAntes

(* the mark of a sale with line items failed *)
C7_MarcacaoFalhou ==
    /\ CancelarTerminou
    /\ VendaCancelavel
    /\ itens_venda[loc.venda_id] # <<>>
    /\ Marcacoes # <<>>
    /\ ~Marcacoes[1].ok

(* the last cancelar_venda marked its sale cancelled *)
CancelouComMarca ==
    /\ CancelarTerminou
    /\ Marcacoes # <<>>
    /\ Marcacoes[1].ok

(* C8: once the sale is marked cancelled, cancelar_venda calls
   registrar_movimentacao('entrada') exactly once for every line item of the
   sale, with that item's quantity, whatever the other calls answered. *)
C8_EstornoDeTodosOsItens ==
    CancelouComMarca =>
        LET itens == antes.itens_venda[loc.venda_id] IN
        /\ Len(Entradas) = Len(itens)
        /\ \A k \in 1..Len(itens) :
              Cardinality({j \in 1..Len(Entradas) :
                  /\ Entradas[j].produto_id = itens[k].produto_id
                  /\ Entradas[j].quantidade = itens[k].quantidade}) = 1

(* what the restock loop does do: one 'entrada' per line item that has a
   product and a non-zero quantity, in the items' order, none for the others *)
EstornoDosItensCompletos ==
    CancelouComMarca =>
        LET completos == SelectSeq(antes.itens_venda[loc.venda_id], ItemCompleto) IN
        /\ Len(Entradas) = Len(completos)
        /\ \A k \in 1..Len(completos) :
              /\ Entradas[k].produto_id = completos[k].produto_id
              /\ Entradas[k].quantidade = completos[k].quantidade

EhEntradaFalha(c) == EhEntrada(c) /\ ~c.ok

(* the products of the restock calls that failed, in the order called *)
EstornosFalhos ==
    LET f == SelectSeq(chamadas, EhEntradaFalha)
    IN [k \in 1..Len(f) |-> f[k].produto_id]

(* C9: after a successful mark, cancelar_venda returns success if and only if
   no restock call failed (so also for a sale with no line items); when one
   failed it returns failure, the sale is still cancelled, and the message
   lists exactly the failed lines, in order, and no others. *)
C9_ResultadoDoEstorno ==
    CancelouComMarca =>
        /\ ret.sucesso <=> EstornosFalhos = <<>>
        /\ ret.itens_com_erro = EstornosFalhos
        /\ vendas[loc.venda_id].status = "cancelada"

(* one of the two restock calls of a two-item sale failed *)
C9_UmEstornoFalhou ==
    /\ CancelouComMarca
    /\ Len(Entradas) = 2
    /\ Len(EstornosFalhos) = 1
    /\ ~ret.sucesso

(* C10: a sale's status only ever moves from finalized to cancelled: a sale
   that exists keeps existing, a cancelled sale stays cancelled, a new sale
   starts finalized, and a cancelar_venda on a sale that was already cancelled
   changes neither any sale's status nor any stock. *)
StatusSoAvanca ==
    /\ Len(vendas') >= Len(vendas)
    /\ \A v \in 1..Len(vendas) :
          /\ vendas[v].status = "cancelada" => vendas'[v].status = "cancelada"
          /\ vendas'[v].status \in {vendas[v].status, "cancelada"}
    /\ \A v \in (Len(vendas) + 1)..Len(vendas') : vendas'[v].status = "finalizada"

CancelarDeNovoNadaMuda ==
    (/\ loc.op = "cancelar_venda"
     /\ loc.venda_id \in 1..Len(antes.vendas)
     /\ antes.vendas[loc.venda_id].status = "cancelada")
    => /\ pc = "idle"
       /\ ~ret.sucesso
       /\ vendas = antes.vendas
       /\ produtos = antes.produtos
       /\ movimentacoes = antes.movimentacoes

C10_StatusTerminal == [][StatusSoAvanca]_vars /\ []CancelarDeNovoNadaMuda

(* a second cancelar_venda found the sale, with restocked items, cancelled *)
C10_SegundoCancelamento ==
    /\ CancelarTerminou
    /\ chamadas[1].ok
    /\ loc.venda_id \in 1..Len(antes.vendas)
    /\ antes.vendas[loc.venda_id].status = "cancelada"
    /\ itens_venda[loc.venda_id] # <<>>
    /\ \E j \in 1..Len(movimentacoes) : movimentacoes[j].tipo = "entrada"

---------------------------------------------------------------------------
(* The cart on its own: the methods of Carrinho called in any order, with any
   arguments, while the stock of the products moves underneath (movements
   registered from elsewhere).  Each call keeps its arguments in loc, its
   result in ret, its selects in chamadas and the state it found in antes. *)

MaxOperacoes == 3

(* the quantity arguments of adicionar_produto and atualizar_quantidade: any
   integer, zero and negative included *)
QuantidadesQuaisquer == (-1)..(EstoqueInicial + 1)

PercentuaisQuaisquer == {-1, 0, 50, 100, 101}

ValoresQuaisquer == {-1, 0, 5000, 20000, 90000}

Argumentos(op, p, q, valor, respostas) ==
    [op |-> op, produto_id |-> p, quantidade |-> q, valor |-> valor,
     respostas |-> respostas]

ChamadaDoCarrinho(op, args, ok, novo, cs) ==
    /\ pc = "idle"
    /\ edicoes < MaxOperacoes
    /\ edicoes' = edicoes + 1
    /\ carrinho' = novo
    /\ ret' = Retorno(op, ok, "", Nenhum, Nenhum, <<>>)
    /\ chamadas' = cs
    /\ antes' = Instantaneo
    /\ loc' = args
    /\ pc' = "idle"
    /\ UNCHANGED remoto

ChamarAdicionarProduto ==
    \E p \in Produtos, q \in QuantidadesQuaisquer, r \in {"ok", "vazio", "erro"} :
        LET a == IF r = "ok"
                 THEN AdicionarAoCarrinho(carrinho, p, q, produtos[p])
                 ELSE [ok |-> FALSE, carrinho |-> carrinho]
        IN ChamadaDoCarrinho("adicionar_produto",
              Argumentos("adicionar_produto", p, q, 0, <<r>>), a.ok, a.carrinho,
              <<Chamada("select_produto", p, "", 0, Nenhum, r = "ok")>>)

ChamarRemoverProduto ==
    \E p \in Produtos :
        LET k == IndiceDe(carrinho.itens, p) IN
        ChamadaDoCarrinho("remover_produto",
           Argumentos("remover_produto", p, 0, 0, <<>>), k # Nenhum,
           IF k = Nenhum THEN carrinho
           ELSE [carrinho EXCEPT !.itens =
                   SubSeq(@, 1, k - 1) \o SubSeq(@, k + 1, Len(@))],
           <<>>)

ChamarAtualizarQuantidade ==
    \E p \in Produtos, q \in QuantidadesQuaisquer :
        LET a == AtualizarQuantidadeEm(carrinho, p, q)
        IN ChamadaDoCarrinho("atualizar_quantidade",
              Argumentos("atualizar_quantidade", p, q, 0, <<>>), a.ok,
              a.carrinho, <<>>)

ChamarAplicarDescontoPercentual ==
    \E percentual \in PercentuaisQuaisquer :
        LET a == AplicarDescontoPercentualEm(carrinho, percentual)
        IN ChamadaDoCarrinho("aplicar_desconto_percentual",
              Argumentos("aplicar_desconto_percentual", Nenhum, 0, percentual, <<>>),
              a.ok, a.carrinho, <<>>)

ChamarAplicarDescontoValor ==
    \E valor \in ValoresQuaisquer :
        LET a == AplicarDescontoValorEm(carrinho, valor)
        IN ChamadaDoCarrinho("aplicar_desconto_valor",
              Argumentos("aplicar_desconto_valor", Nenhum, 0, valor, <<>>),
              a.ok, a.carrinho, <<>>)

ChamarRemoverDesconto ==
    ChamadaDoCarrinho("remover_desconto",
       Argumentos("remover_desconto", Nenhum, 0, 0, <<>>), TRUE,
       [carrinho EXCEPT !.desconto_percentual = 0, !.desconto_valor = 0], <<>>)

ChamarLimpar ==
    ChamadaDoCarrinho("limpar", Argumentos("limpar", Nenhum, 0, 0, <<>>), TRUE,
       Limpar(carrinho), <<>>)

ChamarValidarDisponibilidade ==
    \E respostas \in [1..Len(carrinho.itens) -> {"ok", "vazio", "erro"}] :
        LET v == ValidarDisponibilidade(carrinho, produtos, respostas)
        IN ChamadaDoCarrinho("validar_disponibilidade",
              Argumentos("validar_disponibilidade", Nenhum, 0, 0, respostas),
              v.disponivel, v.carrinho,
              Selects(carrinho.itens, respostas, v.lidos))

(* a stock movement registered from another screen or terminal *)
MovimentacaoDeEstoque ==
    /\ pc = "idle"
    /\ edicoes < MaxOperacoes
    /\ \E p \in Produtos, tipo \in {"entrada", "saida"}, cen \in CenariosDeMovimentacao :
         LET r == RegistrarMovimentacao(produtos, movimentacoes, p, tipo, 1,
                     Observacao("", Nenhum), cen[1], cen[2], cen[3])
         IN /\ produtos' = r.produtos
            /\ movimentacoes' = r.movimentacoes
            /\ ret' = Retorno("registrar_movimentacao", r.ok, "", Nenhum, Nenhum, <<>>)
            /\ chamadas' = <<Chamada("registrar_movimentacao", p, tipo, 1, Nenhum, r.ok)>>
            /\ antes' = Instantaneo
            /\ loc' = Argumentos("registrar_movimentacao", p, 1, 0, <<>>)
    /\ edicoes' = edicoes + 1
    /\ UNCHANGED <<carrinho, vendas, itens_venda, pagamentos, pc>>

NextCarrinho ==
    \/ ChamarAdicionarProduto
    \/ ChamarRemoverProduto
    \/ ChamarAtualizarQuantidade
    \/ ChamarAplicarDescontoPercentual
    \/ ChamarAplicarDescontoValor
    \/ ChamarRemoverDesconto
    \/ ChamarLimpar
    \/ ChamarValidarDisponibilidade
    \/ MovimentacaoDeEstoque

SpecCarrinho == Init /\ [][NextCarrinho]_vars

---------------------------------------------------------------------------
(* validacao_vendas.py on its own: the two payment validators are pure
   functions, applied here to every payment list and total drawn from small
   sets.  Amounts are in thousandths, so 59.99 is 59990 and the tolerance of
   0.01 is 10. *)

MaxPagamentos == 2

FormasQuaisquer == FormasValidas \cup {"cheque"}
ValoresDePagamento == {0, 10, 59990}
ParcelasQuaisquer == {Nenhum, -1, 1, MaxParcelas, MaxParcelas + 1}
TotaisQuaisquer == {10, 20, 31, 59979, 59980, 59995, 60000, 60001}

EntradasDePagamento ==
    { Pagamento(f, v, n) : f \in FormasQuaisquer, v \in ValoresDePagamento,
                           n \in ParcelasQuaisquer }

ListasQuaisquer ==
    UNION { [1..n -> EntradasDePagamento] : n \in 0..MaxPagamentos }

ArgumentosDaValidacao(ps, valor_total, k) ==
    [op |-> "", pagamentos |-> ps, valor_total |-> valor_total, indice |-> k]

InitPagamentos ==
    /\ carrinho = CarrinhoVazio
    /\ produtos = [p \in Produtos |-> EstoqueInicial]
    /\ movimentacoes = <<>>
    /\ vendas = <<>>
    /\ itens_venda = <<>>
    /\ pagamentos = <<>>
    /\ pc = "entrada"
    /\ \E ps \in ListasQuaisquer, valor_total \in TotaisQuaisquer :
          loc = ArgumentosDaValidacao(ps, valor_total, Nenhum)
    /\ ret = RetInicial
    /\ chamadas = <<>>
    /\ antes = AntesInicial
    /\ edicoes = 0

ChamarValidarPagamentosVenda ==
    /\ pc = "entrada"
    /\ pc' = "idle"
    /\ ret' = Retorno("validar_pagamentos_venda",
                      ValidarPagamentosVenda(loc.pagamentos, loc.valor_total),
                      "", Nenhum, Nenhum, <<>>)
    /\ loc' = [loc EXCEPT !.op = "validar_pagamentos_venda"]
    /\ UNCHANGED <<carrinho, remoto, chamadas, antes, edicoes>>

ChamarValidarPagamento ==
    /\ pc = "entrada"
    /\ \E k \in 1..Len(loc.pagamentos) :
          LET pagamento == loc.pagamentos[k] IN
          /\ ret' = Retorno("validar_pagamento",
                            ValidarPagamento(pagamento.forma_pagamento,
                                             pagamento.valor,
                                             pagamento.numero_parcelas),
                            "", Nenhum, Nenhum, <<>>)
          /\ loc' = [loc EXCEPT !.op = "validar_pagamento", !.indice = k]
    /\ pc' = "idle"
    /\ UNCHANGED <<carrinho, remoto, chamadas, antes, edicoes>>

NextPagamentos ==
    \/ ChamarValidarPagamentosVenda
    \/ ChamarValidarPagamento

SpecPagamentos == InitPagamentos /\ [][NextPagamentos]_vars

---------------------------------------------------------------------------
(* Properties of the cart *)

Terminou(op) == pc = "idle" /\ ret.op = op

(* C11: in every reachable cart state at most one of desconto_percentual and
   desconto_valor is nonzero, and a successful apply of one kind leaves the
   applied value in its field and zero in the other. *)
C11_UmDescontoPorVez ==
    /\ ~(carrinho.desconto_percentual # 0 /\ carrinho.desconto_valor # 0)
    /\ (Terminou("aplicar_desconto_percentual") /\ ret.sucesso) =>
          /\ carrinho.desconto_percentual = loc.valor
          /\ carrinho.desconto_valor = 0
    /\ (Terminou("aplicar_desconto_valor") /\ ret.sucesso) =>
          /\ carrinho.desconto_valor = loc.valor
          /\ carrinho.desconto_percentual = 0

(* a fixed discount was applied to a cart that had a percent discount *)
C11_ValorSobrePercentual ==
    /\ Terminou("aplicar_desconto_valor")
    /\ ret.sucesso
    /\ loc.valor > 0
    /\ antes.carrinho.desconto_percentual > 0

SemDesconto(c) == c.desconto_percentual = 0 /\ c.desconto_valor = 0

(* the discount amount, spelled from the two fields *)
ValorDoDesconto(c) ==
    IF c.desconto_valor > 0 THEN c.desconto_valor
    ELSE IF c.desconto_percentual > 0
         THEN (CalcularSubtotal(c) * c.desconto_percentual) \div 100
         ELSE 0

(* C12: in every reachable cart state calcular_total() is
   max(0, subtotal - discount amount) and is never negative, the discount
   amount being the fixed discount if positive, else subtotal * percent / 100,
   else 0; with no discount the total equals the subtotal; after a successful
   apply of percent p the discount amount is subtotal * p / 100. *)
C12_TotalDoCarrinho ==
    LET subtotal == CalcularSubtotal(carrinho) IN
    /\ CalcularTotal(carrinho) = Max(0, subtotal - ValorDoDesconto(carrinho))
    /\ CalcularTotal(carrinho) >= 0
    /\ CalcularDesconto(carrinho) = ValorDoDesconto(carrinho)
    /\ SemDesconto(carrinho) => CalcularTotal(carrinho) = subtotal
    /\ (Terminou("aplicar_desconto_percentual") /\ ret.sucesso) =>
          CalcularDesconto(carrinho) * 100 = subtotal * loc.valor

(* what does hold of the total: the same statement, with "total equals
   subtotal" only for a cart whose subtotal is not negative *)
TotalComPiso ==
    LET subtotal == CalcularSubtotal(carrinho) IN
    /\ CalcularTotal(carrinho) = Max(0, subtotal - ValorDoDesconto(carrinho))
    /\ CalcularTotal(carrinho) >= 0
    /\ CalcularDesconto(carrinho) = ValorDoDesconto(carrinho)
    /\ (SemDesconto(carrinho) /\ subtotal >= 0) =>
          CalcularTotal(carrinho) = subtotal
    /\ (SemDesconto(carrinho) /\ subtotal < 0) => CalcularTotal(carrinho) = 0
    /\ (Terminou("aplicar_desconto_percentual") /\ ret.sucesso) =>
          CalcularDesconto(carrinho) * 100 = subtotal * loc.valor

(* the cart is as the last call found it: same lines, same discount fields *)
CarrinhoComoAntes == carrinho = antes.carrinho

(* C13: aplicar_desconto_valor(v) returns False exactly when v < 0 or
   v > subtotal, aplicar_desconto_percentual(p) returns False exactly when p is
   outside [0,100], and a rejected call leaves the lines and both discount
   fields as they were before it. *)
C13_DescontoRejeitado ==
    /\ Terminou("aplicar_desconto_valor") =>
          /\ ~ret.sucesso <=>
                (loc.valor < 0 \/ loc.valor > CalcularSubtotal(antes.carrinho))
          /\ ~ret.sucesso => CarrinhoComoAntes
    /\ Terminou("aplicar_desconto_percentual") =>
          /\ ~ret.sucesso <=> (loc.valor < 0 \/ loc.valor > 100)
          /\ ~ret.sucesso => CarrinhoComoAntes

(* what does hold of the two applies: a percent inside [0,100] is also
   rejected when subtotal - subtotal * p / 100 is negative, and only then *)
DescontoRejeitadoDeFato ==
    /\ Terminou("aplicar_desconto_valor") =>
          /\ ~ret.sucesso <=>
                (loc.valor < 0 \/ loc.valor > CalcularSubtotal(antes.carrinho))
          /\ ~ret.sucesso => CarrinhoComoAntes
    /\ Terminou("aplicar_desconto_percentual") =>
          LET subtotal == CalcularSubtotal(antes.carrinho) IN
          /\ ~ret.sucesso <=>
                \/ loc.valor < 0
                \/ loc.valor > 100
                \/ subtotal * 100 - subtotal * loc.valor < 0
          /\ (~ret.sucesso /\ subtotal >= 0) => (loc.valor < 0 \/ loc.valor > 100)
          /\ ~ret.sucesso => CarrinhoComoAntes

(* the quantity of the line of product p in cart c, Nenhum when it has none *)
QuantidadeNoCarrinho(c, p) ==
    IF IndiceDe(c.itens, p) = Nenhum THEN Nenhum
    ELSE c.itens[IndiceDe(c.itens, p)].quantidade

TemLinha(c, p) == \E k \in 1..Len(c.itens) : c.itens[k].produto_id = p

(* the quantity adicionar_produto compares with the stock *)
QuantidadeResultante ==
    IF TemLinha(antes.carrinho, loc.produto_id)
    THEN QuantidadeNoCarrinho(antes.carrinho, loc.produto_id) + loc.quantidade
    ELSE loc.quantidade

ProdutoEncontrado == loc.respostas = <<"ok">>

(* C14: when the product is not found, or the resulting quantity exceeds the
   stock just fetched, adicionar_produto returns False and the cart is exactly
   as before; otherwise it returns True and the product's line has the
   resulting quantity, the other lines being as before. *)
C14_AdicionarTudoOuNada ==
    Terminou("adicionar_produto") =>
        LET p == loc.produto_id
            recusado == \/ ~ProdutoEncontrado
                        \/ QuantidadeResultante > antes.produtos[p]
        IN
        /\ recusado => (~ret.sucesso /\ CarrinhoComoAntes)
        /\ ~recusado =>
              /\ ret.sucesso
              /\ TemLinha(carrinho, p)
              /\ \A k \in 1..Len(carrinho.itens) :
                    carrinho.itens[k].produto_id = p =>
                        carrinho.itens[k].quantidade = QuantidadeResultante
              /\ \A k \in 1..Len(antes.carrinho.itens) :
                    antes.carrinho.itens[k].produto_id # p =>
                        carrinho.itens[k] = antes.carrinho.itens[k]
              /\ carrinho.desconto_percentual = antes.carrinho.desconto_percentual
              /\ carrinho.desconto_valor = antes.carrinho.desconto_valor

(* an add to an existing line was refused for exceeding the fetched stock *)
C14_AcrescimoRecusado ==
    /\ Terminou("adicionar_produto")
    /\ ProdutoEncontrado
    /\ TemLinha(antes.carrinho, loc.produto_id)
    /\ loc.quantidade > 0
    /\ QuantidadeResultante > antes.produtos[loc.produto_id]
    /\ ~ret.sucesso

(* the product ids of the lines of cart c, in order *)
IdsDasLinhas(c) == [k \in 1..Len(c.itens) |-> c.itens[k].produto_id]

(* C15: in every reachable cart state no two lines share a product_id; a
   successful add of a product that already has a line increases that line's
   quantity and creates no line; a successful add of another product appends
   its line after the existing ones; no call reorders the lines that stay. *)
C15_UmaLinhaPorProduto ==
    /\ \A j, k \in 1..Len(carrinho.itens) :
          carrinho.itens[j].produto_id = carrinho.itens[k].produto_id => j = k
    /\ (Terminou("adicionar_produto") /\ ret.sucesso) =>
          LET p == loc.produto_id IN
          IF TemLinha(antes.carrinho, p)
          THEN /\ IdsDasLinhas(carrinho) = IdsDasLinhas(antes.carrinho)
               /\ QuantidadeNoCarrinho(carrinho, p) =
                     QuantidadeNoCarrinho(antes.carrinho, p) + loc.quantidade
          ELSE IdsDasLinhas(carrinho) = Append(IdsDasLinhas(antes.carrinho), p)
    /\ (Terminou("remover_produto") /\ ret.sucesso) =>
          IdsDasLinhas(carrinho) =
              SelectSeq(IdsDasLinhas(antes.carrinho),
                        LAMBDA id : id # loc.produto_id)
    /\ (\/ Terminou("atualizar_quantidade")
        \/ Terminou("validar_disponibilidade")
        \/ Terminou("aplicar_desconto_percentual")
        \/ Terminou("aplicar_desconto_valor")
        \/ Terminou("remover_desconto")) =>
          IdsDasLinhas(carrinho) = IdsDasLinhas(antes.carrinho)

(* a product that had a line was added again, in a cart of two lines *)
C15_AcrescimoNaLinhaExistente ==
    /\ Terminou("adicionar_produto")
    /\ ret.sucesso
    /\ loc.quantidade > 0
    /\ Len(antes.carrinho.itens) = 2
    /\ TemLinha(antes.carrinho, loc.produto_id)

(* C16: every line of every reachable cart state has a quantity of at least
   1, whatever integer quantities adicionar_produto and atualizar_quantidade
   are called with. *)
C16_QuantidadeAoMenosUm ==
    \A k \in 1..Len(carrinho.itens) : carrinho.itens[k].quantidade >= 1

(* what does hold of the quantities: atualizar_quantidade never writes one
   below 1, and a line's quantity is below 1 only if it was so before the
   last call or that call was an adicionar_produto whose resulting quantity
   is below 1 *)
QuantidadeBaixaSoPorAdicionar ==
    /\ (Terminou("atualizar_quantidade") /\ ret.sucesso) =>
          QuantidadeNoCarrinho(carrinho, loc.produto_id) >= 1
    /\ \A k \in 1..Len(carrinho.itens) :
          carrinho.itens[k].quantidade < 1 =>
             \/ /\ Terminou("adicionar_produto")
                /\ ret.sucesso
                /\ carrinho.itens[k].produto_id = loc.produto_id
                /\ QuantidadeResultante < 1
             \/ \E j \in 1..Len(antes.carrinho.itens) :
                   /\ antes.carrinho.itens[j].produto_id = carrinho.itens[k].produto_id
                   /\ antes.carrinho.itens[j].quantidade = carrinho.itens[k].quantidade

(* C17: atualizar_quantidade(product_id, q) makes no remote call and succeeds
   exactly when the cart has a line of product_id, q > 0 and q is at most that
   line's cached estoque_disponivel; on success only that line's quantity
   changes, to q; on failure the cart is unchanged. *)
C17_AtualizarQuantidade ==
    Terminou("atualizar_quantidade") =>
        LET p == loc.produto_id
            q == loc.quantidade
            itens == antes.carrinho.itens
        IN
        /\ chamadas = <<>>
        /\ remoto = << antes.produtos, antes.movimentacoes, antes.vendas,
                       antes.itens_venda, antes.pagamentos >>
        /\ ret.sucesso <=>
              \E k \in 1..Len(itens) :
                  /\ itens[k].produto_id = p
                  /\ q > 0
                  /\ q <= itens[k].estoque_disponivel
        /\ ret.sucesso =>
              /\ Len(carrinho.itens) = Len(itens)
              /\ \A k \in 1..Len(itens) :
                    carrinho.itens[k] =
                        IF itens[k].produto_id = p
                        THEN [itens[k] EXCEPT !.quantidade = q]
                        ELSE itens[k]
              /\ carrinho.desconto_percentual = antes.carrinho.desconto_percentual
              /\ carrinho.desconto_valor = antes.carrinho.desconto_valor
        /\ ~ret.sucesso => CarrinhoComoAntes

(* a quantity above the product's present stock was accepted because the
   line's cached stock, read before a stock movement, still allowed it *)
C17_AceitoPeloEstoqueEmCache ==
    /\ Terminou("atualizar_quantidade")
    /\ ret.sucesso
    /\ loc.quantidade > produtos[loc.produto_id]

(* validar_disponibilidade left the lines' products and quantities and the
   two discount fields as they were *)
ValidarNaoMexeNoPedido ==
    /\ IdsDasLinhas(carrinho) = IdsDasLinhas(antes.carrinho)
    /\ \A k \in 1..Len(carrinho.itens) :
          /\ carrinho.itens[k].quantidade = antes.carrinho.itens[k].quantidade
          /\ carrinho.itens[k].preco_unitario =
                antes.carrinho.itens[k].preco_unitario
    /\ carrinho.desconto_percentual = antes.carrinho.desconto_percentual
    /\ carrinho.desconto_valor = antes.carrinho.desconto_valor

TodasRespondidas ==
    \A k \in 1..Len(loc.respostas) : loc.respostas[k] = "ok"

(* C18: validar_disponibilidade fetches the stock of every cart line, changes
   no line's quantity, not the set of lines and not the discounts, and when it
   returns each line's cached estoque_disponivel is the stock just fetched for
   that line's product (stated for a call all of whose fetches were answered
   with the product's row, on a cart whose quantities are all at least 1). *)
C18_ValidarAtualizaOCache ==
    Terminou("validar_disponibilidade") =>
        /\ ValidarNaoMexeNoPedido
        /\ (/\ TodasRespondidas
            /\ \A k \in 1..Len(carrinho.itens) :
                  carrinho.itens[k].quantidade >= 1) =>
              /\ Len(chamadas) = Len(carrinho.itens)
              /\ \A k \in 1..Len(chamadas) :
                    /\ chamadas[k].fn = "select_produto"
                    /\ chamadas[k].produto_id = carrinho.itens[k].produto_id
              /\ \A k \in 1..Len(carrinho.itens) :
                    carrinho.itens[k].estoque_disponivel =
                        produtos[carrinho.itens[k].produto_id]

(* what validar_disponibilidade does do: it never touches quantities, lines
   or discounts; it fetches the lines in order up to the first request that
   raises; it sets a line's cached stock to the fetched value only when that
   value is below the line's quantity or is 0, and leaves the cache of every
   other line as it was *)
ValidarAtualizaSoNaFalta ==
    Terminou("validar_disponibilidade") =>
        /\ ValidarNaoMexeNoPedido
        /\ Len(chamadas) <= Len(carrinho.itens)
        /\ TodasRespondidas => Len(chamadas) = Len(carrinho.itens)
        /\ \A k \in 1..Len(chamadas) :
              /\ chamadas[k].fn = "select_produto"
              /\ chamadas[k].produto_id = carrinho.itens[k].produto_id
        /\ \A k \in 1..Len(carrinho.itens) :
              LET item == carrinho.itens[k]
                  atual == produtos[item.produto_id]
                  lido == k <= Len(chamadas) /\ loc.respostas[k] = "ok"
              IN
              IF lido /\ (item.quantidade > atual \/ atual = 0)
              THEN item.estoque_disponivel = atual
              ELSE item.estoque_disponivel =
                      antes.carrinho.itens[k].estoque_disponivel
        /\ ret.sucesso <=>
              /\ TodasRespondidas
              /\ \A k \in 1..Len(carrinho.itens) :
                    LET item == carrinho.itens[k] IN
                    /\ item.quantidade <= produtos[item.produto_id]
                    /\ produtos[item.produto_id] # 0

---------------------------------------------------------------------------
(* Properties of the payment validators *)

(* one entry as the payment rules describe it *)
EntradaValida(pagamento) ==
    /\ pagamento.valor > 0
    /\ pagamento.forma_pagamento \in
          {"dinheiro", "cartao_credito", "cartao_debito", "pix"}
    /\ IF pagamento.forma_pagamento = "cartao_credito"
       THEN /\ pagamento.numero_parcelas # Nenhum
            /\ pagamento.numero_parcelas \in 1..12
       ELSE pagamento.numero_parcelas = Nenhum

(* the amounts of a list added up, by position *)
RECURSIVE SomaAte(_, _)
SomaAte(ps, n) == IF n = 0 THEN 0 ELSE SomaAte(ps, n - 1) + ps[n].valor

(* C19: validar_pagamentos_venda succeeds if and only if the list is not
   empty, every entry passes validar_pagamento (amount above 0, one of the four
   methods, installments present and in 1..12 exactly for cartao_credito and
   absent otherwise) and the sum of the amounts is within 0.01 of the total;
   an empty list fails for every total. *)
C19_PagamentosDaVenda ==
    /\ Terminou("validar_pagamento") =>
          (ret.sucesso <=> EntradaValida(loc.pagamentos[loc.indice]))
    /\ Terminou("validar_pagamentos_venda") =>
          LET ps == loc.pagamentos
              diferenca == SomaAte(ps, Len(ps)) - loc.valor_total
          IN
          /\ ret.sucesso <=>
                /\ Len(ps) > 0
                /\ \A k \in 1..Len(ps) : EntradaValida(ps[k])
                /\ diferenca <= 10
                /\ -diferenca <= 10
          /\ ps = <<>> => ~ret.sucesso

(* what does hold of the two validators: the same statement wherever the sum
   of the amounts is not exactly 0.01 away from the total; at exactly 0.01 a
   list that is accepted is still non-empty with every entry valid *)
PagamentosForaDoLimite ==
    /\ Terminou("validar_pagamento") =>
          (ret.sucesso <=> EntradaValida(loc.pagamentos[loc.indice]))
    /\ Terminou("validar_pagamentos_venda") =>
          LET ps == loc.pagamentos
              diferenca == SomaAte(ps, Len(ps)) - loc.valor_total
          IN
          /\ (diferenca # 10 /\ diferenca # -10) =>
                (ret.sucesso <=>
                    /\ Len(ps) > 0
                    /\ \A k \in 1..Len(ps) : EntradaValida(ps[k])
                    /\ diferenca < 10
                    /\ -diferenca < 10)
          /\ ret.sucesso =>
                /\ Len(ps) > 0
                /\ \A k \in 1..Len(ps) : EntradaValida(ps[k])
                /\ diferenca <= 10
                /\ -diferenca <= 10
          /\ ps = <<>> => ~ret.sucesso

(* validar_pagamentos_venda was called with one cash payment of 59.99 *)
UmPagamentoEmDinheiroDe5999 ==
    /\ Terminou("validar_pagamentos_venda")
    /\ loc.pagamentos = <<Pagamento("dinheiro", 59990, Nenhum)>>

(* C20 as stated: a single cash payment of 59.99 fails against a total of
   60.00 and succeeds against a total of 59.995. *)
C20_FalhaNoLimite ==
    UmPagamentoEmDinheiroDe5999 =>
        /\ loc.valor_total = 60000 => ~ret.sucesso
        /\ loc.valor_total = 59995 => ret.sucesso

(* C20: a single cash payment of 59.99 succeeds against a total of 60.00,
   the difference being exactly the tolerance of 0.01, and against 59.995; it
   fails against totals more than 0.01 away, 60.001 above and 59.979 below. *)
C20_LimiteDaTolerancia ==
    UmPagamentoEmDinheiroDe5999 =>
        /\ loc.valor_total = 60000 => ret.sucesso
        /\ loc.valor_total = 59995 => ret.sucesso
        /\ loc.valor_total = 60001 => ~ret.sucesso
        /\ loc.valor_total = 59979 => ~ret.sucesso

(* the payment of 59.99 was accepted against the total of 60.00 *)
C20_AceitoNoLimite ==
    /\ UmPagamentoEmDinheiroDe5999
    /\ loc.valor_total = 60000
    /\ ret.sucesso

---------------------------------------------------------------------------
(* Properties of the lifecycle's boundary *)

(* C21: no exception crosses the core boundary: for every input, a payment
   entry with a missing or non-numeric amount included, and every failure of a
   collaborator, finalizar_venda and cancelar_venda end by returning their
   tuple, never by raising. *)
C21_NenhumaExcecao == pc # "excecao"

(* what does hold at the boundary: the only exception that leaves the core
   is the one validar_pagamentos_venda raises inside finalizar_venda, on a
   non-empty cart whose stock check passed, before anything is persisted;
   cancelar_venda and the steps inside the try block always end in a tuple *)
ExcecaoSoNaValidacaoDosPagamentos ==
    /\ pc = "excecao" =>
          /\ loc.op = "finalizar_venda"
          /\ ValidarPagamentosVendaLevanta(loc.pagamentos)
          /\ loc.disponivel
          /\ carrinho.itens # <<>>
          /\ TabelasComoAntes
          /\ EscritasFeitas = <<>>
    /\ (pc = "idle" /\ loc.op = "cancelar_venda") => ret.op = "cancelar_venda"
    /\ (pc = "idle" /\ loc.op = "finalizar_venda" /\ ret.op # "finalizar_venda") =>
          (ret = RetInicial /\ ~loc.valido /\ loc.disponivel)

---------------------------------------------------------------------------
(* Properties of registrar_movimentacao *)

(* the requests of the last registrar_movimentacao got as far as a select
   (its kind and quantity were accepted) *)
MovimentacaoTentada ==
    /\ Terminou("registrar_movimentacao")
    /\ loc.tipo \in TiposMovimentacao
    /\ loc.quantidade > 0

(* the ledger rows the last call appended *)
LinhasNovas ==
    SubSeq(movimentacoes, Len(antes.movimentacoes) + 1, Len(movimentacoes))

(* C22: registrar_movimentacao changes a product's quantity if and only if
   it appends exactly one ledger row for the change: when it returns False the
   quantities and the ledger are as before the call, and when it returns True
   it has appended one row whose quantidade_nova is the product's resulting
   quantity. *)
C22_QuantidadeELivroJuntos ==
    Terminou("registrar_movimentacao") =>
        /\ ~ret.sucesso =>
              /\ produtos = antes.produtos
              /\ movimentacoes = antes.movimentacoes
        /\ ret.sucesso =>
              /\ Len(LinhasNovas) = 1
              /\ LinhasNovas[1].produto_id = loc.produto_id
              /\ LinhasNovas[1].quantidade_nova = produtos[loc.produto_id]
              /\ \A p \in Produtos \ {loc.produto_id} :
                    produtos[p] = antes.produtos[p]

(* what does hold: the ledger never gets a row without the quantity having
   been written, a call that returns True has appended exactly one row that
   carries the resulting quantity, and a call that returns False has changed
   the quantity only if an insert into movimentacoes failed after its update *)
LivroNuncaSemQuantidade ==
    Terminou("registrar_movimentacao") =>
        /\ Len(LinhasNovas) <= 1
        /\ Len(LinhasNovas) = 1 <=> ret.sucesso
        /\ ret.sucesso =>
              /\ LinhasNovas[1].produto_id = loc.produto_id
              /\ LinhasNovas[1].quantidade_nova = produtos[loc.produto_id]
        /\ \A p \in Produtos \ {loc.produto_id} : produtos[p] = antes.produtos[p]
        /\ (~ret.sucesso /\ produtos # antes.produtos) =>
              /\ MovimentacaoTentada
              /\ \/ loc.falha \in {"insert_erro", "insert_conexao"}
                 \/ loc.falha_na_repeticao = "insert_erro"

(* the change one movement of kind 'entrada' or 'saida' makes *)
Delta(tipo, quantidade) == IF tipo = "entrada" THEN quantidade ELSE -quantidade

(* the update of the first attempt was made, a connection error interrupted
   the insert, the reconnection succeeded and the repetition got as far as
   its own update *)
RepetiuDepoisDoUpdate ==
    /\ MovimentacaoTentada
    /\ loc.tipo \in {"entrada", "saida"}
    /\ loc.falha = "insert_conexao"
    /\ loc.reconecta
    /\ loc.falha_na_repeticao \in {"ok", "insert_erro"}

(* C30: one registrar_movimentacao call applies its delta at most once: when
   a connection error interrupts it after the quantity update and before the
   ledger insert, and the reconnect path runs the operation again, the
   product's quantity has changed by exactly one delta. *)
C30_UmDeltaPorChamada ==
    RepetiuDepoisDoUpdate =>
        produtos[loc.produto_id] =
            antes.produtos[loc.produto_id] + Delta(loc.tipo, loc.quantidade)

(* what does hold: a call of kind 'entrada' or 'saida' changes the quantity
   by no delta, by one, or, exactly in the case above, by two; the ledger row
   of the repetition then records the second delta only *)
DoisDeltasSoNaRepeticao ==
    (MovimentacaoTentada /\ loc.tipo \in {"entrada", "saida"}) =>
        LET mudou == produtos[loc.produto_id] - antes.produtos[loc.produto_id]
            delta == Delta(loc.tipo, loc.quantidade)
        IN
        /\ mudou \in {0, delta, 2 * delta}
        /\ mudou = 2 * delta <=> RepetiuDepoisDoUpdate
        /\ (RepetiuDepoisDoUpdate /\ ret.sucesso) =>
              /\ LinhasNovas[1].quantidade_anterior =
                    antes.produtos[loc.produto_id] + delta
              /\ LinhasNovas[1].quantidade_nova =
                    antes.produtos[loc.produto_id] + 2 * delta

---------------------------------------------------------------------------
(* Further properties of the cart *)

QuantidadesPositivas(c) ==
    \A k \in 1..Len(c.itens) : c.itens[k].quantidade >= 1

(* C24: in every cart state reachable by cart operations the amount
   calcular_desconto() returns is at most calcular_subtotal(), also after a
   remover_produto or atualizar_quantidade that follows an accepted fixed
   discount, so that the header finalizar_venda would persist has
   valor_final = valor_total - discount (stated for carts whose quantities are
   all at least 1). *)
C24_DescontoAteOSubtotal ==
    QuantidadesPositivas(carrinho) =>
        /\ CalcularDesconto(carrinho) <= CalcularSubtotal(carrinho)
        /\ DadosVenda(carrinho).valor_final =
              DadosVenda(carrinho).valor_total - CalcularDesconto(carrinho)

(* what does hold: right after an accepted apply the discount is within the
   subtotal; a percent discount always is; a fixed discount is above the
   subtotal only in a cart whose lines were reduced or removed after it was
   accepted, and the total of such a cart is 0 *)
DescontoAteOSubtotalAoAplicar ==
    QuantidadesPositivas(carrinho) =>
        /\ ((Terminou("aplicar_desconto_valor")
             \/ Terminou("aplicar_desconto_percentual")) /\ ret.sucesso) =>
              CalcularDesconto(carrinho) <= CalcularSubtotal(carrinho)
        /\ carrinho.desconto_valor = 0 =>
              CalcularDesconto(carrinho) <= CalcularSubtotal(carrinho)
        /\ CalcularDesconto(carrinho) > CalcularSubtotal(carrinho) =>
              /\ CalcularTotal(carrinho) = 0
              /\ \/ Terminou("remover_produto")
                 \/ Terminou("atualizar_quantidade")
                 \/ Terminou("adicionar_produto")
                 \/ CalcularDesconto(antes.carrinho) >
                       CalcularSubtotal(antes.carrinho)

(* C25: in every reachable cart state each line's quantity is at most that
   line's cached estoque_disponivel, for any sequence of adicionar_produto,
   atualizar_quantidade and validar_disponibilidade calls interleaved with
   changes of the remote stock. *)
C25_QuantidadeAteOEstoqueEmCache ==
    \A k \in 1..Len(carrinho.itens) :
        carrinho.itens[k].quantidade <= carrinho.itens[k].estoque_disponivel

(* what does hold: a new line and a line set by atualizar_quantidade are
   within the line's cached stock; a line is above it only after an
   adicionar_produto raised an existing line against a stock that had grown
   since the line was cached, or after validar_disponibilidade lowered the
   cache to a stock that no longer covers the line *)
AcimaDoCacheSoPorDoisCaminhos ==
    \A k \in 1..Len(carrinho.itens) :
        LET item == carrinho.itens[k] IN
        item.quantidade > item.estoque_disponivel =>
            \/ /\ Terminou("adicionar_produto")
               /\ ret.sucesso
               /\ item.produto_id = loc.produto_id
               /\ TemLinha(antes.carrinho, loc.produto_id)
               /\ item.quantidade <= produtos[item.produto_id]
               /\ produtos[item.produto_id] > item.estoque_disponivel
            \/ /\ Terminou("validar_disponibilidade")
               /\ ~ret.sucesso
               /\ item.estoque_disponivel = produtos[item.produto_id]
               /\ item.quantidade > produtos[item.produto_id]
            \/ \E j \in 1..Len(antes.carrinho.itens) :
                  LET anterior == antes.carrinho.itens[j] IN
                  /\ anterior.produto_id = item.produto_id
                  /\ anterior.quantidade = item.quantidade
                  /\ anterior.estoque_disponivel = item.estoque_disponivel

---------------------------------------------------------------------------
(* Stock against sales and cancellations *)

EstoqueDeInicio == [p \in Produtos |-> EstoqueInicial]

(* the quantity the lines of cart c ask of product p *)
QuantidadePedida(c, p) ==
    IF TemLinha(c, p) THEN QuantidadeNoCarrinho(c, p) ELSE 0

(* the quantity the 'saida' calls of the last finalizar_venda that returned
   True took of product p; a cart has one line per product *)
BaixadoComSucesso(p) ==
    IF \E k \in 1..Len(Saidas) : Saidas[k].produto_id = p /\ Saidas[k].ok
    THEN QuantidadePedida(antes.carrinho, p)
    ELSE 0

(* every registrar_movimentacao of the last finalizar_venda changed the
   quantity exactly when it returned True, and by its quantity *)
BaixasInteiras ==
    \A p \in Produtos : antes.produtos[p] - produtos[p] = BaixadoComSucesso(p)

(* C26: stock is conserved against successful sales: with no cancellation,
   whatever the collaborators answered, each product's initial quantity minus
   its current quantity is the sum of that product's line quantities over the
   finalizar_venda calls that returned success (stated at the end of a
   finalizar_venda call that found the stock as it initially was, on a cart
   whose quantities are all at least 1, and whose stock movements were each
   all or nothing). *)
C26_EstoqueConservado ==
    (/\ FinalizarTerminou
     /\ antes.produtos = EstoqueDeInicio
     /\ QuantidadesPositivas(antes.carrinho)
     /\ BaixasInteiras) =>
        \A p \in Produtos :
            EstoqueInicial - produtos[p] =
                IF ret.sucesso THEN QuantidadePedida(antes.carrinho, p) ELSE 0

(* what does hold: finalizar_venda changes stock only through its 'saida'
   calls, never raises a quantity, and a call that issued no 'saida' leaves
   every quantity as it was *)
EstoqueSoMudaNaBaixa ==
    FinalizarTerminou =>
        /\ Saidas = <<>> => produtos = antes.produtos
        /\ \A p \in Produtos :
              /\ produtos[p] <= antes.produtos[p]
              /\ produtos[p] < antes.produtos[p] =>
                    \E k \in 1..Len(Saidas) : Saidas[k].produto_id = p

(* the quantities of the ledger rows of kind `tipo` that name sale v and
   product p, added up *)
RECURSIVE SomaDoLivro(_, _, _, _)
SomaDoLivro(movs, tipo, v, p) ==
    IF movs = <<>> THEN 0
    ELSE LET m == Head(movs)
             parcela == IF /\ m.tipo = tipo
                           /\ m.observacao.venda = v
                           /\ m.produto_id = p
                        THEN m.quantidade ELSE 0
         IN parcela + SomaDoLivro(Tail(movs), tipo, v, p)

(* the quantities of the persisted line items of sale v that name product p *)
RECURSIVE SomaDosItens(_, _)
SomaDosItens(itens, p) ==
    IF itens = <<>> THEN 0
    ELSE (IF Head(itens).produto_id = p THEN Head(itens).quantidade ELSE 0)
         + SomaDosItens(Tail(itens), p)

(* C27: cancelar_venda never restocks more than the sale removed: for every
   sale and product the quantity added by the sale's 'entrada' movements is at
   most the quantity removed by the sale's 'saida' movements, also for a sale
   whose finalizar_venda failed after the header and the line items were
   persisted. *)
C27_EstornoAteABaixa ==
    \A v \in 1..Len(vendas), p \in Produtos :
        SomaDoLivro(movimentacoes, "entrada", v, p)
            <= SomaDoLivro(movimentacoes, "saida", v, p)

(* what does hold: the restock of a sale is at most what its persisted line
   items say, so it is above what the sale removed only for a sale whose
   stock loop did not get through all its lines *)
EstornoAteOsItensDaVenda ==
    \A v \in 1..Len(vendas), p \in Produtos :
        LET entrada == SomaDoLivro(movimentacoes, "entrada", v, p)
            saida == SomaDoLivro(movimentacoes, "saida", v, p)
        IN
        /\ entrada <= SomaDosItens(itens_venda[v], p)
        /\ saida <= SomaDosItens(itens_venda[v], p)
        /\ entrada > saida => saida < SomaDosItens(itens_venda[v], p)
        /\ entrada > 0 => vendas[v].status = "cancelada"

---------------------------------------------------------------------------
(* Several sessions against the same remote store.  Each session runs its own
   copy of the core; the store sees their requests one at a time, in any
   order.  Here pc, loc and ret hold one value per session, and
   registrar_movimentacao is taken request by request: the select, the update
   and the insert of one call can have another session's requests between
   them. *)

NumSessoes == 2

Sessoes == 1..NumSessoes

LocDaSessao ==
    [op |-> "", venda_id |-> Nenhum, itens |-> <<>>, i |-> 0,
     itens_com_erro |-> <<>>, pagamentos |-> <<>>,
     produto_id |-> Nenhum, tipo |-> "", quantidade |-> 0,
     observacao |-> Observacao("", Nenhum), tentativa |-> 0,
     quantidade_anterior |-> 0, quantidade_nova |-> 0, no_update |-> 0,
     volta |-> "", mov_ok |-> FALSE, sucesso_marcacao |-> FALSE,
     estoque_lido |-> <<>>]

InicioDasSessoes ==
    /\ pc = [s \in Sessoes |-> "idle"]
    /\ loc = [s \in Sessoes |-> LocDaSessao]
    /\ ret = [s \in Sessoes |-> RetInicial]
    /\ chamadas = <<>>
    /\ edicoes = 0

(* the call of registrar_movimentacao by session s; `volta` is where the
   caller goes on when it returns *)
ComecarMovimentacao(l, p, tipo, q, obs, volta) ==
    [l EXCEPT !.produto_id = p, !.tipo = tipo, !.quantidade = q,
              !.observacao = obs, !.tentativa = 1, !.volta = volta,
              !.mov_ok = FALSE]

RespostasDeRequisicao == {"ok", "erro", "conexao"}

(* registrar_movimentacao returns `ok` to its caller; what it read and
   computed is gone *)
AoRetornar(l, ok) ==
    [l EXCEPT !.mov_ok = ok, !.quantidade_anterior = 0, !.quantidade_nova = 0,
              !.no_update = 0]

(* a request of session s failed: a connection error in the first attempt
   reconnects and repeats the whole operation from the select, anything else
   returns False *)
AposFalha(s, resposta, reconecta) ==
    IF resposta = "conexao" /\ loc[s].tentativa = 1 /\ reconecta
    THEN /\ pc' = [pc EXCEPT ![s] = "mov_select"]
         /\ loc' = [loc EXCEPT ![s].tentativa = 2]
    ELSE /\ pc' = [pc EXCEPT ![s] = loc[s].volta]
         /\ loc' = [loc EXCEPT ![s] = AoRetornar(loc[s], FALSE)]

MovSelect(s) ==
    /\ pc[s] = "mov_select"
    /\ \E resposta \in RespostasDeRequisicao \cup {"vazio"}, reconecta \in BOOLEAN :
         IF resposta = "ok"
         THEN /\ pc' = [pc EXCEPT ![s] = "mov_update"]
              /\ loc' = [loc EXCEPT
                    ![s].quantidade_anterior = produtos[loc[s].produto_id],
                    ![s].quantidade_nova =
                        QuantidadeNova(loc[s].tipo, produtos[loc[s].produto_id],
                                       loc[s].quantidade)]
         ELSE IF resposta = "vazio"
         THEN /\ pc' = [pc EXCEPT ![s] = loc[s].volta]
              /\ loc' = [loc EXCEPT ![s] = AoRetornar(loc[s], FALSE)]
         ELSE AposFalha(s, resposta, reconecta)
    /\ UNCHANGED <<carrinho, remoto, ret, chamadas, antes, edicoes>>

MovUpdate(s) ==
    /\ pc[s] = "mov_update"
    /\ \E resposta \in RespostasDeRequisicao, reconecta \in BOOLEAN :
         IF resposta = "ok"
         THEN /\ produtos' = [produtos EXCEPT
                    ![loc[s].produto_id] = loc[s].quantidade_nova]
              /\ pc' = [pc EXCEPT ![s] = "mov_insert"]
              /\ loc' = [loc EXCEPT ![s].no_update = produtos[loc[s].produto_id]]
         ELSE /\ AposFalha(s, resposta, reconecta)
              /\ UNCHANGED produtos
    /\ UNCHANGED <<carrinho, movimentacoes, vendas, itens_venda, pagamentos,
                   ret, chamadas, antes, edicoes>>

(* chamadas keeps, for each ledger row, who wrote it and the quantity the
   product had when the row's update reached the store *)
MovInsert(s) ==
    /\ pc[s] = "mov_insert"
    /\ \E resposta \in RespostasDeRequisicao, reconecta \in BOOLEAN :
         IF resposta = "ok"
         THEN /\ movimentacoes' = Append(movimentacoes,
                    [produto_id |-> loc[s].produto_id, tipo |-> loc[s].tipo,
                     quantidade |-> loc[s].quantidade,
                     quantidade_anterior |-> loc[s].quantidade_anterior,
                     quantidade_nova |-> loc[s].quantidade_nova,
                     observacao |-> loc[s].observacao])
              /\ chamadas' = Append(chamadas,
                    [sessao |-> s, no_update |-> loc[s].no_update])
              /\ pc' = [pc EXCEPT ![s] = loc[s].volta]
              /\ loc' = [loc EXCEPT ![s] = AoRetornar(loc[s], TRUE)]
         ELSE /\ AposFalha(s, resposta, reconecta)
              /\ UNCHANGED <<movimentacoes, chamadas>>
    /\ UNCHANGED <<carrinho, produtos, vendas, itens_venda, pagamentos,
                   ret, antes, edicoes>>

(* Two sessions each calling registrar_movimentacao once. *)

InitMovimentacoes ==
    /\ carrinho = CarrinhoVazio
    /\ produtos = [p \in Produtos |-> EstoqueInicial]
    /\ movimentacoes = <<>>
    /\ vendas = <<>>
    /\ itens_venda = <<>>
    /\ pagamentos = <<>>
    /\ antes = AntesInicial
    /\ InicioDasSessoes

SessaoChamaMovimentacao(s) ==
    /\ pc[s] = "idle"
    /\ ret[s] = RetInicial
    /\ \E p \in Produtos, tipo \in TiposQuaisquer, q \in QuantidadesDeMovimentacao :
         IF tipo \notin TiposMovimentacao \/ q <= 0
         THEN /\ ret' = [ret EXCEPT ![s] =
                    Retorno("registrar_movimentacao", FALSE, "", Nenhum, p, <<>>)]
              /\ loc' = [loc EXCEPT ![s] =
                    [ComecarMovimentacao(LocDaSessao, p, tipo, q,
                        Observacao("", Nenhum), "") EXCEPT !.tentativa = 0]]
              /\ pc' = pc
         ELSE /\ loc' = [loc EXCEPT ![s] =
                    ComecarMovimentacao(LocDaSessao, p, tipo, q,
                        Observacao("", Nenhum), "mov_fim")]
              /\ pc' = [pc EXCEPT ![s] = "mov_select"]
              /\ ret' = ret
    /\ UNCHANGED <<carrinho, remoto, chamadas, antes, edicoes>>

SessaoRecebeMovimentacao(s) ==
    /\ pc[s] = "mov_fim"
    /\ pc' = [pc EXCEPT ![s] = "idle"]
    /\ ret' = [ret EXCEPT ![s] =
            Retorno("registrar_movimentacao", loc[s].mov_ok, "", Nenhum,
                    loc[s].produto_id, <<>>)]
    /\ UNCHANGED <<carrinho, remoto, loc, chamadas, antes, edicoes>>

NextMovimentacoesConcorrentes ==
    \E s \in Sessoes :
        \/ SessaoChamaMovimentacao(s)
        \/ MovSelect(s)
        \/ MovUpdate(s)
        \/ MovInsert(s)
        \/ SessaoRecebeMovimentacao(s)

SpecMovimentacoesConcorrentes ==
    InitMovimentacoes /\ [][NextMovimentacoesConcorrentes]_vars

---------------------------------------------------------------------------
(* Properties of concurrent stock movements *)

(* session s called registrar_movimentacao on product p with kind 'entrada'
   or 'saida', and the call returned True without a repetition *)
AplicouNaPrimeira(s, p) ==
    /\ pc[s] = "idle"
    /\ ret[s].op = "registrar_movimentacao"
    /\ ret[s].sucesso
    /\ loc[s].produto_id = p
    /\ loc[s].tipo \in {"entrada", "saida"}
    /\ loc[s].tentativa = 1

RECURSIVE SomaDosDeltas(_, _)
SomaDosDeltas(n, p) ==
    IF n = 0 THEN 0
    ELSE (IF loc[n].produto_id = p THEN Delta(loc[n].tipo, loc[n].quantidade) ELSE 0)
         + SomaDosDeltas(n - 1, p)

LinhaDesatualizada(k) ==
    /\ movimentacoes[k].tipo \in {"entrada", "saida"}
    /\ movimentacoes[k].quantidade_anterior # chamadas[k].no_update

(* C29: no stock update is lost: when the calls of the sessions on a product
   are of kind 'entrada' or 'saida' and have all returned True, the product's
   quantity is its initial quantity plus the sum of their signed deltas, and
   every ledger row's quantidade_anterior is the quantity the product had
   immediately before that movement's update was applied. *)
C29_NenhumaAtualizacaoPerdida ==
    /\ \A p \in Produtos :
         (/\ \A s \in Sessoes : loc[s].produto_id = p => AplicouNaPrimeira(s, p)
          /\ \A s \in Sessoes : pc[s] = "idle")
         => produtos[p] = EstoqueInicial + SomaDosDeltas(NumSessoes, p)
    /\ \A k \in DOMAIN movimentacoes : ~LinhaDesatualizada(k)

(* what does hold: every row is coherent with the quantity its own call read,
   a row is out of date only when another session has a call on the same
   product, and a product only one session moved ends at its initial quantity
   plus that delta *)
PerdaSoNoMesmoProduto ==
    /\ \A k \in DOMAIN movimentacoes :
         /\ movimentacoes[k].quantidade_nova =
                QuantidadeNova(movimentacoes[k].tipo,
                               movimentacoes[k].quantidade_anterior,
                               movimentacoes[k].quantidade)
         /\ LinhaDesatualizada(k) =>
                \E s \in Sessoes \ {chamadas[k].sessao} :
                    loc[s].produto_id = movimentacoes[k].produto_id
    /\ \A p \in Produtos, s \in Sessoes :
         (/\ AplicouNaPrimeira(s, p)
          /\ \A o \in Sessoes \ {s} : loc[o].produto_id # p)
         => produtos[p] = EstoqueInicial + Delta(loc[s].tipo, loc[s].quantidade)

---------------------------------------------------------------------------
(* Two sessions each calling cancelar_venda once, on a store that holds one
   sale finalized with success: its header, its line items, its payment, and
   the stock and the ledger after its 'saida' movements. *)

LinhasDeInicio ==
    {<<ItemCarrinho(p, q, Preco(p), EstoqueInicial)>> :
        p \in Produtos, q \in 1..EstoqueInicial}
    \cup
    {<<ItemCarrinho(par[1], 1, Preco(par[1]), EstoqueInicial),
       ItemCarrinho(par[2], 1, Preco(par[2]), EstoqueInicial)>> :
        par \in {d \in Produtos \X Produtos : d[1] # d[2]}}

CarrinhosDeInicio == {[CarrinhoVazio EXCEPT !.itens = linhas] : linhas \in LinhasDeInicio}

(* the stock loop of a finalizar_venda in which no request failed *)
RECURSIVE BaixarLinhas(_, _, _, _)
BaixarLinhas(prod, movs, itens, venda_id) ==
    IF itens = <<>> THEN [produtos |-> prod, movimentacoes |-> movs]
    ELSE LET r == RegistrarMovimentacao(prod, movs, Head(itens).produto_id,
                     "saida", Head(itens).quantidade,
                     Observacao("Venda", venda_id), "ok", FALSE, "ok")
         IN BaixarLinhas(r.produtos, r.movimentacoes, Tail(itens), venda_id)

InitCancelamentos ==
    \E c \in CarrinhosDeInicio :
        LET baixa == BaixarLinhas([p \in Produtos |-> EstoqueInicial], <<>>, c.itens, 1)
            pago == <<Pagamento("dinheiro", CalcularTotal(c), Nenhum)>>
        IN
        /\ carrinho = CarrinhoVazio
        /\ produtos = baixa.produtos
        /\ movimentacoes = baixa.movimentacoes
        /\ vendas = <<DadosVenda(c)>>
        /\ itens_venda = <<ItensDaVenda(c.itens)>>
        /\ pagamentos = <<pago>>
        /\ antes = [carrinho |-> c, produtos |-> baixa.produtos,
                    vendas |-> <<DadosVenda(c)>>,
                    itens_venda |-> <<ItensDaVenda(c.itens)>>,
                    pagamentos |-> <<pago>>,
                    movimentacoes |-> baixa.movimentacoes]
        /\ InicioDasSessoes

SessaoCancelarVenda(s) ==
    /\ pc[s] = "idle"
    /\ ret[s] = RetInicial
    /\ \E venda_id \in 1..MaxVendas, cen \in Cenarios :
         LET b == BuscarVendaCompleta(vendas, itens_venda, venda_id,
                                      cen[1], cen[2], cen[3])
             d == DecisaoCancelar(b.encontrada, b.status)
         IN IF d = "marcar_venda_cancelada"
            THEN /\ pc' = [pc EXCEPT ![s] = d]
                 /\ ret' = ret
                 /\ loc' = [loc EXCEPT ![s] =
                        [LocDaSessao EXCEPT !.op = "cancelar_venda",
                                            !.venda_id = venda_id,
                                            !.itens = b.itens]]
            ELSE /\ pc' = pc
                 /\ ret' = [ret EXCEPT ![s] =
                        Retorno("cancelar_venda", FALSE, d, Nenhum, Nenhum, <<>>)]
                 /\ loc' = [loc EXCEPT ![s] =
                        [LocDaSessao EXCEPT !.op = "cancelar_venda",
                                            !.venda_id = venda_id]]
    /\ UNCHANGED <<carrinho, remoto, chamadas, antes, edicoes>>

(* the step of session s after `passo` answered ok *)
SessaoAvancaCancelar(s, passo, ok, ultimo, l) ==
    LET proximo == ProximoPassoCancelar(passo, ok, ultimo) IN
    IF proximo = "fim"
    THEN /\ pc' = [pc EXCEPT ![s] = "idle"]
         /\ ret' = [ret EXCEPT ![s] = ResultadoCancelar(passo, ok, l.itens_com_erro)]
         /\ loc' = [loc EXCEPT ![s] = l]
    ELSE /\ pc' = [pc EXCEPT ![s] = proximo]
         /\ ret' = ret
         /\ loc' = [loc EXCEPT ![s] = l]

SessaoCancelarMarcar(s) ==
    /\ pc[s] = "marcar_venda_cancelada"
    /\ \E cen \in Cenarios :
         LET m == MarcarVendaCancelada(vendas, loc[s].venda_id, cen[1], cen[2], cen[3])
         IN /\ vendas' = m.vendas
            /\ SessaoAvancaCancelar(s, "marcar_venda_cancelada", m.ok,
                                    loc[s].itens = <<>>,
                                    [loc[s] EXCEPT !.i = 1, !.sucesso_marcacao = m.ok])
    /\ UNCHANGED <<carrinho, produtos, movimentacoes, itens_venda, pagamentos,
                   chamadas, antes, edicoes>>

(* the head of the restock loop: an incomplete item is skipped, a complete one
   is handed to registrar_movimentacao *)
SessaoCancelarEstorno(s) ==
    /\ pc[s] = "estorno"
    /\ LET item == loc[s].itens[loc[s].i] IN
       IF ItemCompleto(item)
       THEN /\ pc' = [pc EXCEPT ![s] = "mov_select"]
            /\ loc' = [loc EXCEPT ![s] =
                    ComecarMovimentacao(loc[s], item.produto_id, "entrada",
                        item.quantidade,
                        Observacao("Estorno de venda", loc[s].venda_id),
                        "estorno_volta")]
            /\ ret' = ret
       ELSE SessaoAvancaCancelar(s, "estorno", TRUE, loc[s].i = Len(loc[s].itens),
                                 [loc[s] EXCEPT !.i = @ + 1])
    /\ UNCHANGED <<carrinho, remoto, chamadas, antes, edicoes>>

(* registrar_movimentacao returned to the restock loop *)
SessaoCancelarEstornoVolta(s) ==
    /\ pc[s] = "estorno_volta"
    /\ LET item == loc[s].itens[loc[s].i]
           erros == IF loc[s].mov_ok THEN loc[s].itens_com_erro
                    ELSE Append(loc[s].itens_com_erro, item.produto_id)
       IN SessaoAvancaCancelar(s, "estorno", loc[s].mov_ok,
                               loc[s].i = Len(loc[s].itens),
                               [loc[s] EXCEPT !.i = @ + 1, !.itens_com_erro = erros])
    /\ UNCHANGED <<carrinho, remoto, chamadas, antes, edicoes>>

NextCancelamentosConcorrentes ==
    \E s \in Sessoes :
        \/ SessaoCancelarVenda(s)
        \/ SessaoCancelarMarcar(s)
        \/ SessaoCancelarEstorno(s)
        \/ MovSelect(s)
        \/ MovUpdate(s)
        \/ MovInsert(s)
        \/ SessaoCancelarEstornoVolta(s)

SpecCancelamentosConcorrentes ==
    InitCancelamentos /\ [][NextCancelamentosConcorrentes]_vars

---------------------------------------------------------------------------
(* Properties of concurrent cancellations *)

(* the sessions whose cancelar_venda got the mark through *)
SessoesQueMarcaram == {s \in Sessoes : loc[s].sucesso_marcacao}

(* C28: for any interleaving of two cancelar_venda calls on the same finalized
   sale, at most one of them marks the sale cancelled and restocks its lines:
   each line item's quantity is added back to stock at most once. *)
C28_UmSoCancelamento ==
    /\ Cardinality(SessoesQueMarcaram) <= 1
    /\ \A v \in 1..Len(vendas), p \in Produtos :
         SomaDoLivro(movimentacoes, "entrada", v, p)
            <= SomaDosItens(itens_venda[v], p)

(* what does hold: a session restocks a line at most once and only after its
   own mark went through, so the restock is at most the line items' quantities
   for each session that marked *)
EstornoUmaVezPorSessaoQueMarcou ==
    /\ \A s \in Sessoes :
         pc[s] \in {"estorno", "estorno_volta", "mov_select", "mov_update",
                    "mov_insert"} => loc[s].sucesso_marcacao
    /\ \A v \in 1..Len(vendas), p \in Produtos :
         SomaDoLivro(movimentacoes, "entrada", v, p)
            <= Cardinality(SessoesQueMarcaram) * SomaDosItens(itens_venda[v], p)

---------------------------------------------------------------------------
(* Two sessions each calling finalizar_venda once, each on its own cart.  The
   carts were filled by adicionar_produto against the initial stock; here
   carrinho holds one cart per session.  loc[s].itens keeps the lines session
   s went to the store with and loc[s].estoque_lido the quantities its stock
   check was answered with. *)

InitFinalizacoes ==
    /\ carrinho \in [Sessoes -> CarrinhosDeInicio]
    /\ produtos = [p \in Produtos |-> EstoqueInicial]
    /\ movimentacoes = <<>>
    /\ vendas = <<>>
    /\ itens_venda = <<>>
    /\ pagamentos = <<>>
    /\ antes = AntesInicial
    /\ InicioDasSessoes

SessaoFinalizarVenda(s) ==
    /\ pc[s] = "idle"
    /\ ret[s] = RetInicial
    /\ \E ps \in ListasDePagamento(CalcularTotal(carrinho[s])),
          respostas \in [1..Len(carrinho[s].itens) -> {"ok", "vazio", "erro"}] :
         LET v == ValidarDisponibilidade(carrinho[s], produtos, respostas)
             valido == ValidarPagamentosVenda(ps, CalcularTotal(v.carrinho))
             d == DecisaoInicial(carrinho[s].itens = <<>>, v.disponivel, valido)
             l == [LocDaSessao EXCEPT !.op = "finalizar_venda",
                                      !.pagamentos = ps,
                                      !.itens = carrinho[s].itens,
                                      !.estoque_lido = produtos]
         IN /\ carrinho' = [carrinho EXCEPT ![s] = v.carrinho]
            /\ loc' = [loc EXCEPT ![s] = l]
            /\ IF d = "inserir_venda"
               THEN /\ pc' = [pc EXCEPT ![s] = d]
                    /\ ret' = ret
               ELSE /\ pc' = pc
                    /\ ret' = [ret EXCEPT ![s] =
                          Retorno("finalizar_venda", FALSE, d, Nenhum, Nenhum, <<>>)]
    /\ UNCHANGED <<remoto, chamadas, antes, edicoes>>

(* the end of one step of session s's try block *)
SessaoAvanca(s, passo, ok, ultimo, l, produto) ==
    LET proximo == ProximoPasso(passo, ok, ultimo) IN
    IF proximo = "fim"
    THEN LET r == ResultadoFinalizar(passo, ok, l.venda_id, produto) IN
         /\ pc' = [pc EXCEPT ![s] = "idle"]
         /\ ret' = [ret EXCEPT ![s] = r]
         /\ loc' = [loc EXCEPT ![s] = l]
         /\ carrinho' = [carrinho EXCEPT ![s] = CarrinhoAoTerminar(@, r.sucesso)]
    ELSE /\ pc' = [pc EXCEPT ![s] = proximo]
         /\ loc' = [loc EXCEPT ![s] = l]
         /\ UNCHANGED <<ret, carrinho>>

SessaoInserirVenda(s) ==
    /\ pc[s] = "inserir_venda"
    /\ \E cen \in Cenarios :
         LET r == InserirVenda(vendas, DadosVenda(carrinho[s]), cen[1], cen[2], cen[3])
             ok == r.venda_id # Nenhum
         IN /\ vendas' = r.vendas
            /\ itens_venda' = IF ok THEN Append(itens_venda, <<>>) ELSE itens_venda
            /\ pagamentos' = IF ok THEN Append(pagamentos, <<>>) ELSE pagamentos
            /\ SessaoAvanca(s, "inserir_venda", ok, FALSE,
                            [loc[s] EXCEPT !.venda_id = r.venda_id], Nenhum)
    /\ UNCHANGED <<produtos, movimentacoes, chamadas, antes, edicoes>>

SessaoInserirItens(s) ==
    /\ pc[s] = "inserir_itens_venda"
    /\ \E cen \in Cenarios :
         LET r == InserirItensVenda(itens_venda, loc[s].venda_id,
                                    ItensDaVenda(carrinho[s].itens),
                                    cen[1], cen[2], cen[3])
         IN /\ itens_venda' = r.tabela
            /\ SessaoAvanca(s, "inserir_itens_venda", r.ok, FALSE, loc[s], Nenhum)
    /\ UNCHANGED <<produtos, movimentacoes, vendas, pagamentos, chamadas,
                   antes, edicoes>>

SessaoInserirPagamentos(s) ==
    /\ pc[s] = "inserir_pagamentos"
    /\ \E cen \in Cenarios :
         LET r == InserirPagamentos(pagamentos, loc[s].venda_id, loc[s].pagamentos,
                                    cen[1], cen[2], cen[3])
         IN /\ pagamentos' = r.tabela
            /\ SessaoAvanca(s, "inserir_pagamentos", r.ok, FALSE,
                            [loc[s] EXCEPT !.i = 1], Nenhum)
    /\ UNCHANGED <<produtos, movimentacoes, vendas, itens_venda, chamadas,
                   antes, edicoes>>

(* the head of the stock loop: the line is handed to registrar_movimentacao *)
SessaoBaixaEstoque(s) ==
    /\ pc[s] = "baixa_estoque"
    /\ LET item == carrinho[s].itens[loc[s].i] IN
       /\ pc' = [pc EXCEPT ![s] = "mov_select"]
       /\ loc' = [loc EXCEPT ![s] =
               ComecarMovimentacao(loc[s], item.produto_id, "saida",
                   item.quantidade, Observacao("Venda", loc[s].venda_id),
                   "baixa_volta")]
    /\ UNCHANGED <<carrinho, remoto, ret, chamadas, antes, edicoes>>

(* registrar_movimentacao returned to the stock loop *)
SessaoBaixaVolta(s) ==
    /\ pc[s] = "baixa_volta"
    /\ LET item == carrinho[s].itens[loc[s].i] IN
       SessaoAvanca(s, "baixa_estoque", loc[s].mov_ok,
                    loc[s].i = Len(carrinho[s].itens),
                    [loc[s] EXCEPT !.i = @ + 1], item.produto_id)
    /\ UNCHANGED <<remoto, chamadas, antes, edicoes>>

NextFinalizacoesConcorrentes ==
    \E s \in Sessoes :
        \/ SessaoFinalizarVenda(s)
        \/ SessaoInserirVenda(s)
        \/ SessaoInserirItens(s)
        \/ SessaoInserirPagamentos(s)
        \/ SessaoBaixaEstoque(s)
        \/ MovSelect(s)
        \/ MovUpdate(s)
        \/ MovInsert(s)
        \/ SessaoBaixaVolta(s)

SpecFinalizacoesConcorrentes ==
    InitFinalizacoes /\ [][NextFinalizacoesConcorrentes]_vars

---------------------------------------------------------------------------
(* Properties of concurrent finalizations *)

(* session s's finalizar_venda goes from its guards into the try block *)
PassaNaChecagem(s) == pc[s] = "idle" /\ pc'[s] = "inserir_venda"

(* C23: finalize calls of two sessions are not serialized by the core: a
   session passes validar_disponibilidade on the quantities the store holds at
   that moment alone (each line at most the quantity read, and that quantity
   above zero), and passing reserves nothing: the store is left as it was, so
   another session can pass against the same quantities and both can go on to
   decrement. *)
C23_ChecagemSemReserva ==
    [][\A s \in Sessoes :
         PassaNaChecagem(s) =>
            /\ remoto' = remoto
            /\ \A k \in 1..Len(carrinho[s].itens) :
                 /\ carrinho[s].itens[k].quantidade
                        <= produtos[carrinho[s].itens[k].produto_id]
                 /\ produtos[carrinho[s].itens[k].produto_id] > 0]_vars

(* both sessions passed the stock check against the same quantity of a
   product, both finalize calls returned success, their quantities of the
   product add up to more than that quantity, and the product is below zero *)
C23_AmbasVenderamAlemDoEstoque ==
    \E p \in Produtos :
        /\ \A s \in Sessoes :
             /\ pc[s] = "idle"
             /\ ret[s].op = "finalizar_venda"
             /\ ret[s].sucesso
             /\ SomaDosItens(loc[s].itens, p) > 0
             /\ loc[s].estoque_lido[p] = loc[1].estoque_lido[p]
        /\ SomaDosItens(loc[1].itens, p) + SomaDosItens(loc[NumSessoes].itens, p)
              > loc[1].estoque_lido[p]
        /\ produtos[p] < 0

============================================================================
